---- MODULE Spec2Model ----
(***************************************************************************)
(* The presentation generator's request pipeline (routes/ppt.js as mounted *)
(* by server.js): outline generation with retry, outline normalisation,    *)
(* per-slide image enrichment, deck assembly, and the error-handling       *)
(* middleware's mapping of a failure to a response.                        *)
(*                                                                         *)
(* Text is a sequence of tokens.  An error message is a sequence of words  *)
(* in which every keyword the error handler looks for is one token, so     *)
(* that String.includes is membership.  A bullet string is a sequence of   *)
(* characters.  A colour is the sequence of its six hex digits.            *)
(***************************************************************************)
EXTENDS Integers, Sequences, FiniteSets, TLC

VARIABLES
    pc,         \* where the request handler is suspended
    req,        \* the validated request body
    attempts,   \* getPresentationOutline: attempts
    delay,      \* getPresentationOutline: delay (ms)
    llmLog,     \* what each generateContent call ended with, in call order
    waits,      \* the backoff waits scheduled so far (ms), in order
    parsed,     \* the LLM's outline as JSON.parse returned it (last call)
    outline,    \* the outline getPresentationOutline returned
    idx,        \* the enrichment loop's i (0-based)
    imgCalls,   \* slide indexes for which the image search was called
    imgHits,    \* number of image searches that returned an image
    lastFetch,  \* how the image search of the slide just enriched ended
    inFlight,   \* slide indexes whose image search has started and not settled
    pauses,     \* slide indexes after which the 500ms pause was taken
    deck,       \* the slides added to the pptx document, in order
    err,        \* the message of the error passed to next(err), if any
    response,   \* what was sent to the client
    env,        \* process.env, as far as the route reads it
    args,       \* the arguments of a function applied on its own
    result,     \* what that function returned
    page        \* the web form: its React state, its handler and its request

vars == <<pc, req, attempts, delay, llmLog, waits, parsed, outline, idx,
          imgCalls, imgHits, lastFetch, inFlight, pauses, deck, err, response, env,
          args, result, page>>

-----------------------------------------------------------------------------
(* Bounds of the model *)

\* the LLM's slides array has 0 slides, or the requested count give or take this
MaxDelta == 1
\* image searches that return an image within one request
MaxImageHits == 1
\* longest slides array the normaliser is applied to on its own
MaxLlmSlides == 20

-----------------------------------------------------------------------------
(* Generic helpers *)

Min(a, b) == IF a < b THEN a ELSE b

Max(a, b) == IF a > b THEN a ELSE b

\* Array.prototype.slice(0, n)
Take(s, n) == SubSeq(s, 1, Min(n, Len(s)))

\* Array.prototype.slice(n)
Drop(s, n) == SubSeq(s, n + 1, Len(s))

\* String.prototype.includes for a keyword token
Includes(msg, kw) == \E i \in DOMAIN msg : msg[i] = kw

-----------------------------------------------------------------------------
(* JSON values of an outline *)

Absent == "absent"

NoBullets == [t |-> Absent, arr |-> <<>>, str |-> <<>>]
BulletArray(a) == [t |-> "arr", arr |-> a, str |-> <<>>]
BulletString(s) == [t |-> "str", arr |-> <<>>, str |-> s]
BulletOther == [t |-> "num", arr |-> <<>>, str |-> <<>>]

NoImage == [t |-> Absent, data |-> Absent, idea |-> Absent, from |-> Absent,
            url |-> Absent, attribution |-> Absent]
NoTable == [t |-> Absent, headersArr |-> FALSE, headers |-> <<>>,
            rowsArr |-> FALSE, rows |-> <<>>]
NoChart == [t |-> Absent, type |-> Absent, labelsArr |-> FALSE, labels |-> <<>>,
            valuesArr |-> FALSE, values |-> <<>>]

\* a table row: an array of cells, or a JSON value that is no array
Row(cells) == [t |-> "arr", cells |-> cells]
BadRow(t) == [t |-> t, cells |-> <<>>]

\* an entry of the slides array; kind is the JSON type of the entry
SlideObj(title, bp, layout, hint, image, table, chart) ==
    [kind |-> "obj", slideTitle |-> title, bulletPoints |-> bp, layout |-> layout,
     visualHint |-> hint, image |-> image, table |-> table, chart |-> chart]

NonObj(kind) ==
    [kind |-> kind, slideTitle |-> [src |-> "absent", n |-> 0], bulletPoints |-> NoBullets, layout |-> Absent,
     visualHint |-> Absent, image |-> NoImage, table |-> NoTable, chart |-> NoChart]

\* the title of a slide: the LLM's own (numbered by its place in the LLM's
\* array) or the filler's `Additional Content ${n}`
LlmTitle(i) == [src |-> "llm", n |-> i]
FillerTitle(n) == [src |-> "Additional Content", n |-> n]
NoTitle == [src |-> Absent, n |-> 0]

-----------------------------------------------------------------------------
(* getPresentationOutline: repair of the parsed outline *)

Separators == {"NL", "BUL", "CHK", "SQRT", "/", ";"}
Whitespace == {" "}
Digits == {"1", "2"}

RECURSIVE SkipSeparators(_)
SkipSeparators(s) ==
    IF s # <<>> /\ Head(s) \in Separators THEN SkipSeparators(Tail(s)) ELSE s

\* String.prototype.split(/[\n•✓√\/;]+/)
RECURSIVE Split(_)
Split(s) ==
    IF s = <<>> THEN << <<>> >>
    ELSE IF Head(s) \in Separators
         THEN << <<>> >> \o Split(SkipSeparators(s))
         ELSE LET rest == Split(Tail(s))
              IN  << <<Head(s)>> \o Head(rest) >> \o Tail(rest)

RECURSIVE TrimStart(_)
TrimStart(s) ==
    IF s # <<>> /\ Head(s) \in Whitespace THEN TrimStart(Tail(s)) ELSE s

RECURSIVE TrimEnd(_)
TrimEnd(s) ==
    IF s # <<>> /\ s[Len(s)] \in Whitespace THEN TrimEnd(SubSeq(s, 1, Len(s) - 1)) ELSE s

\* String.prototype.trim
Trim(s) == TrimEnd(TrimStart(s))

RECURSIVE LeadingDigits(_)
LeadingDigits(s) ==
    IF s # <<>> /\ Head(s) \in Digits THEN 1 + LeadingDigits(Tail(s)) ELSE 0

\* RemoveLeadingNumber removing nothing
RemoveLeadingNumberKeep(s) == s

\* s.replace(/^\d+\.\s*/, '')
RemoveLeadingNumber(s) ==
    LET k == LeadingDigits(s)
    IN  IF k >= 1 /\ Len(s) > k /\ s[k + 1] = "."
        THEN TrimStart(Drop(s, k + 1))
        ELSE s

\* Boolean(s) for a string
NonEmpty(s) == s # <<>>

\* the repair of a bulletPoints string
SplitBullets(s) ==
    LET frags == Split(s)
        mapped == [i \in 1..Len(frags) |-> RemoveLeadingNumber(Trim(frags[i]))]
    IN  SelectSeq(mapped, NonEmpty)

\* FixBulletPoints dropping the empty strings of an array as well
FixBulletPointsFiltering(slide) ==
    IF slide.kind # "obj" THEN slide
    ELSE IF slide.bulletPoints.t = "str"
         THEN [slide EXCEPT !.bulletPoints = BulletArray(SplitBullets(slide.bulletPoints.str))]
    ELSE IF slide.bulletPoints.t # "arr"
         THEN [slide EXCEPT !.bulletPoints = BulletArray(<<>>)]
    ELSE [slide EXCEPT !.bulletPoints = BulletArray(SelectSeq(slide.bulletPoints.arr, NonEmpty))]

\* the forEach callback.  Reading a property of a number or a string gives
\* undefined and the assignment to it is ignored (the module is not strict);
\* reading a property of null throws, which is not modelled here but in
\* NormalizeOutline.
FixBulletPoints(slide) ==
    IF slide.kind # "obj" THEN slide
    ELSE IF slide.bulletPoints.t = "str"
         THEN [slide EXCEPT !.bulletPoints = BulletArray(SplitBullets(slide.bulletPoints.str))]
    ELSE IF slide.bulletPoints.t # "arr"
         THEN [slide EXCEPT !.bulletPoints = BulletArray(<<>>)]
    ELSE slide

\* the slide pushed when the LLM returned too few
FillerSlide(n, topic) ==
    SlideObj(FillerTitle(n),
             BulletArray(<< <<"Key point about ", topic>>,
                            <<"Important information to consider">>,
                            <<"Relevant details for this topic">> >>),
             Absent, "hint", NoImage, NoTable, NoChart)

RECURSIVE PushFillers(_, _, _)
PushFillers(slides, slideCount, topic) ==
    IF Len(slides) < slideCount
    THEN PushFillers(Append(slides, FillerSlide(Len(slides) + 1, topic)), slideCount, topic)
    ELSE slides

\* FixSlideCount without the branch that adds slides
FixSlideCountTrimOnly(slides, slideCount, topic) ==
    IF Len(slides) > slideCount THEN Take(slides, slideCount) ELSE slides

\* FixSlideCount keeping the last slides of too many
FixSlideCountKeepLast(slides, slideCount, topic) ==
    IF Len(slides) > slideCount THEN Drop(slides, Len(slides) - slideCount)
    ELSE PushFillers(slides, slideCount, topic)

\* "Validate and fix slide count", for a slides value that is an array
FixSlideCount(slides, slideCount, topic) ==
    IF Len(slides) # slideCount
    THEN IF Len(slides) > slideCount
         THEN Take(slides, slideCount)
         ELSE PushFillers(slides, slideCount, topic)
    ELSE slides

\* "Validate and fix slide count" for any slides value.  The test is
\* parsed.slides && parsed.slides.length !== slideCount: a missing, null or
\* empty-string value is skipped; a number or an object has no length, and
\* undefined is neither above nor below the count; a string has a length
\* and slice, but no push, so that a string shorter than the count throws.
CountRepair(p, slideCount, topic) ==
    CASE p.slidesKind = "arr" ->
             [threw |-> FALSE,
              value |-> [p EXCEPT !.slides = FixSlideCount(p.slides, slideCount, topic)]]
      [] p.slidesKind = "str" /\ p.slides # <<>> /\ Len(p.slides) > slideCount ->
             [threw |-> FALSE, value |-> [p EXCEPT !.slides = Take(p.slides, slideCount)]]
      [] p.slidesKind = "str" /\ p.slides # <<>> /\ Len(p.slides) < slideCount ->
             [threw |-> TRUE, value |-> p]
      [] OTHER -> [threw |-> FALSE, value |-> p]

\* "Fix bulletPoints if not array or concatenated": parsed.slides.forEach.
\* A slides value that is no array has no forEach, and a null entry has no
\* properties: each throws a TypeError.
BulletRepair(p) ==
    IF p.slidesKind # "arr" \/ \E i \in DOMAIN p.slides : p.slides[i].kind = "null"
    THEN [threw |-> TRUE, value |-> p]
    ELSE [threw |-> FALSE,
          value |-> [p EXCEPT !.slides = [i \in DOMAIN p.slides |-> FixBulletPoints(p.slides[i])]]]

\* The body of the inner try after JSON.parse: the two repairs in turn.  A
\* throw leaves the try with the outline as parsed.
NormalizeOutline(p, slideCount, topic) ==
    LET counted == CountRepair(p, slideCount, topic)
    IN  IF counted.threw THEN [threw |-> TRUE, value |-> p]
        ELSE LET fixed == BulletRepair(counted.value)
             IN  IF fixed.threw THEN [threw |-> TRUE, value |-> p] ELSE fixed

-----------------------------------------------------------------------------
(* Errors and the error-handling middleware *)

GenerationPrefix == "Failed to generate presentation outline: "

\* `Failed to generate presentation outline: ${error.message}`
WrapGenerationError(message) == <<GenerationPrefix>> \o message

NoJsonMessage == <<"No ", "JSON", " found in Gemini API response.">>
ParseFailedMessage == <<"Failed to ", "parse", " extracted ", "JSON", " from Gemini response.">>

\* what generateContent can reject with: the SDK error's status and message
UpstreamErrors ==
    { [status |-> 503, message |-> <<"The model is overloaded">>],
      [status |-> 503, message |-> <<"Invalid", " upstream state">>],
      [status |-> 400, message |-> <<"API key", " not valid">>],
      [status |-> 429, message |-> <<"quota", " exceeded">>],
      [status |-> 400, message |-> <<"Invalid", " argument">>],
      [status |-> 400, message |-> <<"Invalid", " ", "JSON", " payload">>],
      [status |-> 0,   message |-> <<"fetch failed">>],
      [status |-> 504, message |-> <<"deadline ", "timeout">>],
      [status |-> 429, message |-> <<"Rate limit", " reached">>] }

InternalServerError == <<"Internal server error">>
ServiceUnavailable == <<"Service temporarily unavailable">>
FailedToProcess == <<"Failed to process AI response">>
RequestTimeout == <<"Request timeout - please try again">>
TooManyRequests == <<"Too many requests - please try again later">>

FixedMessages ==
    {InternalServerError, ServiceUnavailable, FailedToProcess, RequestTimeout,
     TooManyRequests}

NoResponse == [kind |-> "none", status |-> 0, error |-> <<>>]
FileResponse == [kind |-> "file", status |-> 200, error |-> <<>>]
JsonError(status, message) == [kind |-> "json", status |-> status, error |-> message]

\* errorHandler testing the 400 branch before the 502 branch
errorHandlerValidationFirst(message) ==
    IF Includes(message, "API key") \/ Includes(message, "quota")
    THEN JsonError(503, ServiceUnavailable)
    ELSE IF Includes(message, "validation") \/ Includes(message, "Invalid")
    THEN JsonError(400, message)
    ELSE IF Includes(message, "parse") \/ Includes(message, "JSON")
    THEN JsonError(502, FailedToProcess)
    ELSE IF Includes(message, "timeout") \/ Includes(message, "TIMEOUT")
    THEN JsonError(408, RequestTimeout)
    ELSE IF Includes(message, "Rate limit") \/ Includes(message, "Too many requests")
    THEN JsonError(429, TooManyRequests)
    ELSE JsonError(500, InternalServerError)

\* errorHandler with the 502 branch testing 'parse' alone
errorHandlerParseOnly(message) ==
    IF Includes(message, "API key") \/ Includes(message, "quota")
    THEN JsonError(503, ServiceUnavailable)
    ELSE IF Includes(message, "parse")
    THEN JsonError(502, FailedToProcess)
    ELSE IF Includes(message, "validation") \/ Includes(message, "Invalid")
    THEN JsonError(400, message)
    ELSE IF Includes(message, "timeout") \/ Includes(message, "TIMEOUT")
    THEN JsonError(408, RequestTimeout)
    ELSE IF Includes(message, "Rate limit") \/ Includes(message, "Too many requests")
    THEN JsonError(429, TooManyRequests)
    ELSE JsonError(500, InternalServerError)

\* errorHandler(err, req, res, next): the status and the error text it sends
errorHandler(message) ==
    IF Includes(message, "API key") \/ Includes(message, "quota")
    THEN JsonError(503, ServiceUnavailable)
    ELSE IF Includes(message, "parse") \/ Includes(message, "JSON")
    THEN JsonError(502, FailedToProcess)
    ELSE IF Includes(message, "validation") \/ Includes(message, "Invalid")
    THEN JsonError(400, message)
    ELSE IF Includes(message, "timeout") \/ Includes(message, "TIMEOUT")
    THEN JsonError(408, RequestTimeout)
    ELSE IF Includes(message, "Rate limit") \/ Includes(message, "Too many requests")
    THEN JsonError(429, TooManyRequests)
    ELSE JsonError(500, InternalServerError)

-----------------------------------------------------------------------------
(* The request and what the LLM may answer *)

\* A JSON value of the request body that may be a number or a string:
\* its type, and the number (or the number the string spells)
Num(n) == [t |-> "num", n |-> n]
Str(n) == [t |-> "str", n |-> n]
Missing == [t |-> Absent, n |-> 0]

\* The topic of the body: its JSON type, the name of its text, and the
\* characters of the text, each a blank or a letter
TopicOf(text, chars) == [t |-> "str", text |-> text, chars |-> chars]
Repeat(c, n) == [i \in 1..n |-> c]
Topic == TopicOf("TOPIC", Repeat("x", 5))

\* a topic that holds a character outside Latin-1
WideTopic == TopicOf("WIDE TOPIC", <<"x", "x", "U+65E5">>)

\* validSlideCount, validStyles, validLevels
SlideCounts == {3, 5, 7, 10}
validStyles == {"professional", "casual", "academic", "creative"}
validLevels == {"beginner", "general", "expert"}

\* req.body
Body(topic, slideCount, presentationStyle, audienceLevel, colorTheme) ==
    [topic |-> topic, slideCount |-> slideCount, presentationStyle |-> presentationStyle,
     audienceLevel |-> audienceLevel, colorTheme |-> colorTheme]

\* a body within the domains
Request(slideCount, colorTheme) ==
    Body(Topic, Num(slideCount), Absent, "expert", colorTheme)

\* every slide count, and every colour theme but two, which come with the
\* bodies below
Requests ==
    { Request(3, "green"), Request(5, Absent), Request(7, "teal"), Request(10, "gray"),
      Request(3, "orange"), Request(3, "blue"),
      Body(WideTopic, Num(3), Absent, Absent, Absent) }

\* bodies with a value outside its domain
BadBodies ==
    { Body(TopicOf("ab", <<" ", "x", "x", " ">>), Num(5), Absent, Absent, Absent),
      Body(TopicOf("long", Repeat("x", 201)), Num(5), Absent, Absent, Absent),
      Body([t |-> "num", text |-> "42", chars |-> <<>>], Num(5), Absent, Absent, Absent),
      Body([t |-> Absent, text |-> Absent, chars |-> <<>>], Missing, Absent, Absent, Absent),
      Body(Topic, Num(4), Absent, Absent, Absent),
      Body(Topic, Str(5), Absent, Absent, Absent),
      Body(Topic, Num(3), "fancy", Absent, Absent),
      Body(Topic, Num(3), Absent, "kids", Absent),
      Body(Topic, Num(3), Absent, Absent, "pink"),
      Body(TopicOf("a", <<"x">>), Num(12), "fancy", "kids", "pink"),
      Body(Topic, Num(0), "casual", Absent, "purple"),
      Body(Topic, Num(3), "", Absent, "red") }

Bodies == Requests \cup BadBodies

\* Boolean(v) for a value of the body
Truthy(v) == v \notin {Absent, ""}
TruthyNumOrStr(v) == v.t # Absent /\ (v.t = "num" => v.n # 0)

\* validateInput(topic, slideCount, presentationStyle, audienceLevel, colorTheme)
validateInput(topic, slideCount, presentationStyle, audienceLevel, colorTheme) ==
    (IF topic.t # "str" \/ topic.chars = <<>> \/ Len(Trim(topic.chars)) < 3
     THEN <<"Topic must be at least 3 characters long">> ELSE <<>>)
    \o (IF topic.t = "str" /\ Len(topic.chars) > 200
        THEN <<"Topic must be less than 200 characters">> ELSE <<>>)
    \o (IF TruthyNumOrStr(slideCount) /\ ~(slideCount.t = "num" /\ slideCount.n \in SlideCounts)
        THEN <<"Slide count must be 3, 5, 7, or 10">> ELSE <<>>)
    \o (IF Truthy(presentationStyle) /\ presentationStyle \notin validStyles
        THEN <<"Invalid presentation style">> ELSE <<>>)
    \o (IF Truthy(audienceLevel) /\ audienceLevel \notin validLevels
        THEN <<"Invalid audience level">> ELSE <<>>)
    \o (IF Truthy(colorTheme) /\ colorTheme \notin {"blue", "green", "purple", "red", "orange", "teal", "gray"}
        THEN <<"Invalid color theme">> ELSE <<>>)

\* validationErrors.join(', ')
RECURSIVE Join(_)
Join(errors) ==
    IF Len(errors) <= 1 THEN errors
    ELSE <<Head(errors), ", ">> \o Join(Tail(errors))

\* options.slideCount / options.colorTheme
OptionSlideCount(r) == IF TruthyNumOrStr(r.slideCount) THEN r.slideCount.n ELSE 5
OptionColorTheme(r) == IF Truthy(r.colorTheme) THEN r.colorTheme ELSE "blue"

maxAttempts == 3
InitialDelay == 1000

\* ShouldRetry without the test of the status
ShouldRetryAnyError(status, n) == n < maxAttempts

\* the catch of one attempt: retry only on 503 with attempts left
ShouldRetry(status, n) == status = 503 /\ n < maxAttempts

\* NextDelay tripling
NextDelayTriple(d) == d * 3

\* delay *= 2
NextDelay(d) == d * 2

AfterMaximumRetries == <<"Failed to generate presentation outline after maximum retries.">>
RenderTypeError == <<"TypeError: ", "is not a function">>
WriteFailed == <<"Failed to write the document">>

\* the TypeError of setHeader for a value with a character it refuses:
\* a control character such as the newline, or a character above U+00FF
InvalidHeaderChars == {"NL", "U+65E5"}
InvalidCharacter == <<"Invalid", " character in header content">>

\* whether res.set accepts `attachment; filename="${topic.replace(/ /g, '_')}.pptx"`
ValidHeaderValue(chars) == \A i \in DOMAIN chars : chars[i] \notin InvalidHeaderChars

\* the message getPresentationOutline throws for an error caught in the
\* attempt's catch: wrapped there, and wrapped again by the outer catch
ThrownMessage(message) == WrapGenerationError(WrapGenerationError(message))

-----------------------------------------------------------------------------
(* Themes and colours.  A colour is its six hex digits, most significant   *)
(* first: '1E3A8A' is <<1, 14, 3, 10, 8, 10>>.                             *)

White == <<15, 15, 15, 15, 15, 15>>
Red == <<15, 15, 0, 0, 0, 0>>
TableBorder == <<14, 5, 14, 7, 14, 11>>

colorThemes ==
  [
    blue   |-> [background |-> <<1, 14, 3, 10, 8, 10>>, title |-> <<15, 15, 15, 15, 15, 15>>,
                text |-> <<1, 15, 2, 9, 3, 7>>, accent |-> <<3, 11, 8, 2, 15, 6>>],
    green  |-> [background |-> <<1, 6, 6, 5, 3, 4>>, title |-> <<15, 15, 15, 15, 15, 15>>,
                text |-> <<1, 15, 2, 9, 3, 7>>, accent |-> <<2, 2, 12, 5, 5, 14>>],
    purple |-> [background |-> <<7, 12, 3, 10, 14, 13>>, title |-> <<15, 15, 15, 15, 15, 15>>,
                text |-> <<1, 15, 2, 9, 3, 7>>, accent |-> <<10, 8, 5, 5, 15, 7>>],
    red    |-> [background |-> <<13, 12, 2, 6, 2, 6>>, title |-> <<15, 15, 15, 15, 15, 15>>,
                text |-> <<1, 15, 2, 9, 3, 7>>, accent |-> <<14, 15, 4, 4, 4, 4>>],
    orange |-> [background |-> <<14, 10, 5, 8, 0, 12>>, title |-> <<15, 15, 15, 15, 15, 15>>,
                text |-> <<1, 15, 2, 9, 3, 7>>, accent |-> <<15, 9, 7, 3, 1, 6>>],
    teal   |-> [background |-> <<0, 15, 7, 6, 6, 14>>, title |-> <<15, 15, 15, 15, 15, 15>>,
                text |-> <<1, 15, 2, 9, 3, 7>>, accent |-> <<1, 4, 11, 8, 10, 6>>],
    gray   |-> [background |-> <<4, 11, 5, 5, 6, 3>>, title |-> <<15, 15, 15, 15, 15, 15>>,
                text |-> <<1, 15, 2, 9, 3, 7>>, accent |-> <<6, 11, 7, 2, 8, 0>>]
  ]

ThemeNames == DOMAIN colorThemes

\* SelectedTheme never looking the name up
SelectedThemeBlue(name) == colorThemes["blue"]

\* colorThemes[options.colorTheme] || colorThemes.blue
SelectedTheme(name) ==
    IF name \in ThemeNames THEN colorThemes[name] ELSE colorThemes["blue"]

\* parseInt(hex, 16) split into its three bytes
hexToRgb(hex) ==
    [r |-> hex[1] * 16 + hex[2], g |-> hex[3] * 16 + hex[4], b |-> hex[5] * 16 + hex[6]]

clamp(v) == Max(0, Min(255, v))

\* LightenChannel blending toward black
LightenChannelDarken(c, pct) == clamp((100 * c - c * pct + 50) \div 100)

\* Math.round(c + (255 - c) * pct), pct given in hundredths
LightenChannel(c, pct) == clamp((100 * c + (255 - c) * pct + 50) \div 100)

\* c.toString(16).padStart(2, '0').toUpperCase()
HexByte(c) == <<c \div 16, c % 16>>

lighten(hex, pct) ==
    LET rgb == hexToRgb(hex)
    IN  HexByte(LightenChannel(rgb.r, pct)) \o HexByte(LightenChannel(rgb.g, pct))
            \o HexByte(LightenChannel(rgb.b, pct))

layouts ==
    <<"title-bullets", "two-column", "quote", "section-divider", "checklist",
      "numbers", "image-left">>

LayoutNames == {layouts[i] : i \in DOMAIN layouts}

\* pickLayout never taking the layout provided
pickLayoutCycleOnly(index, provided) == layouts[(index % Len(layouts)) + 1]

\* provided && layouts.includes(provided) ? provided : layouts[idx % layouts.length]
pickLayout(index, provided) ==
    IF Truthy(provided) /\ provided \in LayoutNames
    THEN provided
    ELSE layouts[(index % Len(layouts)) + 1]

\* bgVariants holding white only
bgVariantsPlain(theme) == <<White>>

\* bgVariants of addContentSlide, with pct in hundredths
bgVariants(theme) ==
    <<White, lighten(theme.accent, 85), lighten(theme.accent, 92),
      lighten(theme.background, 95), lighten(theme.accent, 80)>>

-----------------------------------------------------------------------------
(* Drawing.  What a slide holds is the sequence of elements added to it.   *)
(* A renderer's result says whether it threw, what it returned, and what   *)
(* it added to the slide.                                                  *)

El(el, region) ==
    [el |-> el, region |-> region, title |-> NoTitle, lines |-> <<>>, rows |-> <<>>,
     type |-> Absent, labels |-> <<>>, values |-> <<>>, fill |-> <<>>, data |-> Absent]

TitleEl(region, title) == [El("text", region) EXCEPT !.title = title]
TextEl(region, lines) == [El("text", region) EXCEPT !.lines = lines]
ShapeEl(region, fill) == [El("shape", region) EXCEPT !.fill = fill]
ImageEl(region, data) == [El("image", region) EXCEPT !.data = data]
TableEl(region, rows) == [El("table", region) EXCEPT !.rows = rows]
ChartEl(region, type, labels, values) ==
    [El("chart", region) EXCEPT !.type = type, !.labels = labels, !.values = values]

\* one line of a text box: the prefix put before a bullet, and the bullet
Line(prefix, n, text) == [prefix |-> prefix, n |-> n, text |-> text]
BulletLines(bullets) == [i \in 1..Len(bullets) |-> Line("BUL ", 0, bullets[i])]
CheckLines(bullets) == [i \in 1..Len(bullets) |-> Line("CHK ", 0, bullets[i])]
\* NumberLines counting from zero
NumberLinesFromZero(bullets) == [i \in 1..Len(bullets) |-> Line(". ", i - 1, bullets[i])]

NumberLines(bullets) == [i \in 1..Len(bullets) |-> Line(". ", i, bullets[i])]

Returned(ok, els) == [threw |-> FALSE, ok |-> ok, els |-> els]
Threw == [threw |-> TRUE, ok |-> FALSE, els |-> <<>>]

\* statement sequence: a ; b
AndThen(a, b) ==
    IF a.threw THEN a ELSE [threw |-> b.threw, ok |-> b.ok, els |-> a.els \o b.els]

\* a || b
OrElse(a, b) == IF a.threw \/ a.ok THEN a ELSE AndThen(a, b)

\* the drawing primitives of the document library that may throw on a call
Primitives == {"addImage", "addTable", "addChart"}

\* renderImage(s, region, image).  Data that is no string has no startsWith:
\* the try catches that, and the catch's own image.data.substring throws.
renderImage(region, image, theme, faults) ==
    LET placeholder ==
            <<ShapeEl(region, lighten(theme.background, 60)),
              TextEl(region, <<Line("", 0,
                  <<IF image.idea # Absent THEN image.idea ELSE "Image placeholder">>)>>)>>
    IN  IF image.t = Absent THEN Returned(FALSE, <<>>)
        ELSE IF image.data # Absent
        THEN IF image.data = "num" THEN Threw
             ELSE IF "addImage" \in faults THEN Returned(TRUE, placeholder)
             ELSE Returned(TRUE,
                     <<ImageEl(region, IF image.data = "b64" THEN "jpeg-b64" ELSE image.data)>>)
        ELSE Returned(TRUE, placeholder)

\* renderChart(s, region, chart)
renderChart(region, chart, faults) ==
    IF chart.t = Absent \/ ~chart.labelsArr \/ ~chart.valuesArr THEN Returned(FALSE, <<>>)
    ELSE LET n == Min(Len(chart.labels), Len(chart.values))
             t == IF chart.type \in {"bar", "line", "pie"} THEN chart.type ELSE "bar"
         IN  IF n = 0 THEN Returned(FALSE, <<>>)
             ELSE IF "addChart" \in faults THEN Returned(FALSE, <<>>)
             ELSE Returned(TRUE, <<ChartEl(region, t, Take(chart.labels, n),
                                           Take(chart.values, n))>>)

\* SliceRow keeping the whole row
SliceRowWhole(r, n) == r

\* r.slice(0, headers.length) for one row: an array and a string have slice
SliceRow(r, n) == IF r.t = "arr" THEN Row(Take(r.cells, n)) ELSE r

\* renderTable(s, region, table).  The rows are sliced before the try.
renderTable(region, table, faults) ==
    IF table.t = Absent \/ ~table.headersArr \/ ~table.rowsArr THEN Returned(FALSE, <<>>)
    ELSE LET headers == Take(table.headers, 6)
             kept == Take(table.rows, 6)
         IN  IF \E i \in DOMAIN kept : kept[i].t \notin {"arr", "str"} THEN Threw
             ELSE IF "addTable" \in faults THEN Returned(FALSE, <<>>)
             ELSE Returned(TRUE,
                     <<TableEl(region, <<Row(headers)>> \o
                          [i \in DOMAIN kept |-> SliceRow(kept[i], Len(headers))])>>)

\* slideData.bulletPoints.filter(Boolean), or [] when it is no array
Bullets(slideData) ==
    IF slideData.bulletPoints.t = "arr"
    THEN SelectSeq(slideData.bulletPoints.arr, NonEmpty)
    ELSE <<>>

\* the switch of addContentSlide: what the layout adds to the slide
LayoutElements(layout, slideData, theme, faults) ==
    LET title == IF slideData.slideTitle.src # Absent THEN slideData.slideTitle
                 ELSE [src |-> "Untitled Slide", n |-> 0]
        bullets == Bullets(slideData)
        text(region, lines) == Returned(TRUE, <<TextEl(region, lines)>>)
        titleText == Returned(TRUE, <<TitleEl("title", title)>>)
        chartThenTable ==
            OrElse(renderChart("bottom", slideData.chart, faults),
                   renderTable("bottom", slideData.table, faults))
    IN  CASE layout = "two-column" ->
             LET half == (Len(bullets) + 1) \div 2
                 mid == IF half = 0 THEN 1 ELSE half
                 tableOrChart ==
                     OrElse(renderTable("right", slideData.table, faults),
                            renderChart("right", slideData.chart, faults))
             IN  AndThen(titleText,
                 AndThen(text("left", BulletLines(Take(bullets, mid))),
                         IF tableOrChart.threw \/ tableOrChart.ok THEN tableOrChart
                         ELSE text("right", BulletLines(Drop(bullets, mid)))))
          [] layout = "quote" ->
             LET quote == IF bullets # <<>> THEN bullets[1]
                          ELSE <<"Insightful quote or key takeaway goes here.">>
                 rest == Drop(bullets, 1)
             IN  AndThen(titleText,
                 AndThen(text("quote", <<Line("QUOTE", 0, quote)>>),
                 AndThen(IF rest # <<>> THEN text("rest", BulletLines(rest))
                         ELSE Returned(TRUE, <<>>),
                         OrElse(renderTable("bottom", slideData.table, faults),
                         OrElse(renderChart("bottom", slideData.chart, faults),
                                renderImage("bottom", slideData.image, theme, faults))))))
          [] layout = "section-divider" ->
             Returned(TRUE, <<ShapeEl("divider", theme.accent), TitleEl("title", title)>>)
          [] layout = "checklist" ->
             AndThen(titleText,
             AndThen(text("body", CheckLines(IF bullets # <<>> THEN bullets
                                             ELSE << <<"First task">>, <<"Second task">> >>)),
                     chartThenTable))
          [] layout = "numbers" ->
             AndThen(titleText,
             AndThen(text("body", NumberLines(IF bullets # <<>> THEN bullets
                                              ELSE << <<"Point one">>, <<"Point two">> >>)),
                     chartThenTable))
          [] layout = "image-left" ->
             AndThen(renderImage("image", slideData.image, theme, faults),
             AndThen(titleText, text("body", BulletLines(bullets))))
          [] OTHER ->
             AndThen(titleText,
             AndThen(text("body", BulletLines(bullets)),
             AndThen(renderImage("right", slideData.image, theme, faults),
                     chartThenTable)))

\* a slide of the document
DeckSlide(type, index, layout, background, els) ==
    [type |-> type, index |-> index, layout |-> layout, background |-> background,
     els |-> els]

\* addContentSlide(pptx, slideData, index): the slide is added to the
\* document first, then background, stripe and the layout's elements
addContentSlide(slideData, index, theme, faults) ==
    LET layout == pickLayout(index, slideData.layout)
        variants == bgVariants(theme)
        bg == variants[(index % Len(variants)) + 1]
        drawn == LayoutElements(layout, slideData, theme, faults)
    IN  [threw |-> drawn.threw,
         slide |-> DeckSlide("content", index, layout, bg,
                             <<ShapeEl("stripe", theme.accent)>> \o drawn.els)]

\* the title slide: outline.title || topic, and the subtitle
TitleSlide(o, topic, theme) ==
    DeckSlide("title", 0, Absent, theme.background,
              <<TextEl("title", <<Line("", 0, <<IF o.title # Absent THEN o.title ELSE topic>>)>>),
                TextEl("subtitle", <<Line("Presentation on ", 0, <<topic>>)>>)>>)

\* the fallback slide of an outline without a slides array
ErrorSlide ==
    DeckSlide("error", 0, Absent, White,
              <<[TextEl("title", <<Line("", 0, <<"Error: No content generated">>)>>)
                    EXCEPT !.fill = Red]>>)

\* outline.slides.forEach: entries that are objects are rendered at their
\* own index, until one throws
RECURSIVE ContentSlides(_, _, _, _)
ContentSlides(slides, i, theme, faults) ==
    IF i > Len(slides) THEN [threw |-> FALSE, slides |-> <<>>]
    ELSE IF slides[i].kind # "obj" THEN ContentSlides(slides, i + 1, theme, faults)
    ELSE LET one == addContentSlide(slides[i], i - 1, theme, faults)
         IN  IF one.threw THEN [threw |-> TRUE, slides |-> <<one.slide>>]
             ELSE LET more == ContentSlides(slides, i + 1, theme, faults)
                  IN  [threw |-> more.threw, slides |-> <<one.slide>> \o more.slides]

\* the route from "Title slide" to the end of "Content slides"
AssembleDeck(o, topic, theme, faults) ==
    IF o.slidesKind = "arr"
    THEN LET content == ContentSlides(o.slides, 1, theme, faults)
         IN  [threw |-> content.threw,
              slides |-> <<TitleSlide(o, topic, theme)>> \o content.slides]
    ELSE [threw |-> FALSE, slides |-> <<TitleSlide(o, topic, theme), ErrorSlide>>]

-----------------------------------------------------------------------------
(* What the LLM may answer *)

\* a well-formed slide without optional fields; its second bullet is empty
BaseSlide(i) ==
    SlideObj(LlmTitle(i), BulletArray(<< <<"a">>, <<>>, <<"b">> >>), Absent, Absent,
             NoImage, NoTable, NoChart)

LlmImage(data, idea) ==
    [t |-> "obj", data |-> data, idea |-> idea, from |-> "llm",
     url |-> Absent, attribution |-> Absent]

GoodTable ==
    [t |-> "obj", headersArr |-> TRUE, headers |-> <<"h1", "h2">>,
     rowsArr |-> TRUE, rows |-> <<Row(<<"c1", "c2", "c3">>), Row(<<"d1">>)>>]

GoodChart ==
    [t |-> "obj", type |-> "pie", labelsArr |-> TRUE, labels |-> <<"x", "y", "z">>,
     valuesArr |-> TRUE, values |-> <<1, 2>>]

\* the entries tried in one place of the LLM's array
SpecialEntries ==
    { NonObj("null"), NonObj("num"), NonObj("str"),
      SlideObj(NoTitle, BulletString(<<" ", "1", ".", " ", "a", "/", ";", " ", "b", " ", "NL">>),
               "checklist", Absent, NoImage, NoTable, NoChart),
      SlideObj(NoTitle, BulletOther, Absent, "hint", LlmImage(Absent, "idea"),
               NoTable, NoChart),
      SlideObj(NoTitle, BulletArray(<< <<"a">>, <<"b">>, <<"c">> >>), "two-column", Absent,
               NoImage, [GoodTable EXCEPT !.rows = <<Row(<<"c1">>), BadRow("num")>>],
               GoodChart),
      SlideObj(NoTitle, BulletArray(<< <<"a">>, <<"b">>, <<"c">> >>), "two-column", Absent,
               NoImage, [GoodTable EXCEPT !.headersArr = FALSE], GoodChart),
      SlideObj(NoTitle, BulletArray(<< <<"a">> >>), "image-left", Absent,
               LlmImage("num", Absent), NoTable, NoChart),
      SlideObj(NoTitle, BulletArray(<< <<"a">> >>), "image-left", "hint",
               LlmImage("b64", "idea"), NoTable, NoChart),
      SlideObj(NoTitle, BulletArray(<< <<"a">>, <<"b">> >>), "quote", Absent,
               LlmImage(Absent, "idea"), GoodTable,
               [GoodChart EXCEPT !.valuesArr = FALSE]),
      SlideObj(NoTitle, NoBullets, "numbers", Absent, NoImage, GoodTable,
               [GoodChart EXCEPT !.labels = <<>>]) }

WithTitle(e, i) == IF e.kind = "obj" THEN [e EXCEPT !.slideTitle = LlmTitle(i)] ELSE e

\* an array of n slides, all well-formed but the one at place p (none if p = 0)
LlmSlides(n, p, e) == [i \in 1..n |-> IF i = p THEN WithTitle(e, i) ELSE BaseSlide(i)]

ParsedOutline(title, kind, slides) == [title |-> title, slidesKind |-> kind, slides |-> slides]

NoOutline == ParsedOutline(Absent, Absent, <<>>)

\* the places of an array of n slides where the special entry is tried: the
\* first and the last
SpecialPlaces(n) == { p \in 1..n : p = 1 \/ p = n }

\* the arrays of the given lengths
ArrayOutlines(lengths) ==
    { ParsedOutline("T", "arr", LlmSlides(n, 0, NonObj("null"))) : n \in lengths }
    \cup UNION { { ParsedOutline("T", "arr", LlmSlides(n, p, e)) :
                       p \in SpecialPlaces(n), e \in SpecialEntries }
                 : n \in lengths }

\* a slides field that is missing, or is no array; a string is given by its
\* characters, each a string
NonArrayOutlines ==
    { ParsedOutline("T", k, <<>>) : k \in {Absent, "null", "num", "str", "obj"} }
    \cup { ParsedOutline("T", "str", Repeat(NonObj("str"), n)) : n \in {2, 11} }

\* lengths near the requested count, and the empty array
NearLengths(slideCount) ==
    {0} \cup { n \in (slideCount - MaxDelta)..(slideCount + MaxDelta) : n >= 0 }

ParsedOutlines(slideCount) ==
    NonArrayOutlines \cup ArrayOutlines(NearLengths(slideCount))
        \cup { ParsedOutline(Absent, "arr", <<>>) }

-----------------------------------------------------------------------------
(* The web form (Home).  The page holds the React state topic, isLoading   *)
(* and message, where handleSubmit is suspended (phase), the requests sent *)
(* and in flight, the 60-second timer of the request in flight, and the    *)
(* timers left armed by requests that were rejected.                       *)

\* the page after its first render
Home(backendUrl) ==
    [topic |-> <<>>, isLoading |-> FALSE, message |-> "", phase |-> "idle",
     sent |-> 0, inFlight |-> 0, timer |-> FALSE, stale |-> 0, backendUrl |-> backendUrl]

\* no page is open
NoPage == [Home(TRUE) EXCEPT !.phase = "closed"]

\* !topic.trim()
Blank(topic) == Trim(topic) = <<>>

\* disabled of the submit control, never disabled by isLoading
SubmitDisabledWhenBlank(p) == Blank(p.topic)

\* disabled={isLoading || !topic.trim()} of the submit control
SubmitDisabled(p) == p.isLoading \/ Blank(p.topic)

\* catch and finally of handleSubmit
Finished(p, message) ==
    [p EXCEPT !.message = message, !.isLoading = FALSE, !.phase = "idle",
              !.inFlight = IF p.phase = "idle" THEN @ ELSE @ - 1, !.timer = FALSE]

\* handleSubmit up to its first await, or to its end when it sends nothing
handleSubmit(p) ==
    IF Blank(p.topic) THEN [p EXCEPT !.message = "Please enter a presentation topic"]
    ELSE IF ~p.backendUrl
    THEN Finished(p, "Error: Backend URL not configured. Please check your environment variables.")
    ELSE [p EXCEPT !.isLoading = TRUE, !.message = "", !.timer = TRUE, !.phase = "fetch",
                   !.sent = @ + 1, !.inFlight = @ + 1]

-----------------------------------------------------------------------------
(* The request handler, one action per resumption *)

\* the request is received; the image search's key is unset in the runs of
\* one request
Init ==
    /\ pc = "received"
    /\ req \in Bodies
    /\ env \in [UNSPLASH_ACCESS_KEY : BOOLEAN]
    /\ ~env.UNSPLASH_ACCESS_KEY => req = Request(3, "green")
    /\ attempts = 0
    /\ delay = InitialDelay
    /\ llmLog = <<>>
    /\ waits = <<>>
    /\ parsed = NoOutline
    /\ outline = NoOutline
    /\ idx = 0
    /\ imgCalls = {}
    /\ imgHits = 0
    /\ lastFetch = "none"
    /\ inFlight = {}
    /\ args = <<>>
    /\ result = <<>>
    /\ pauses = <<>>
    /\ deck = <<>>
    /\ err = <<>>
    /\ response = NoResponse
    /\ page = NoPage

\* the route up to its first await: the body is validated and answered
\* with 400 and the joined messages, or the outline is asked for
ValidateRequest ==
    /\ pc = "received"
    /\ LET validationErrors ==
               validateInput(req.topic, req.slideCount, req.presentationStyle,
                             req.audienceLevel, req.colorTheme)
       IN  IF validationErrors # <<>>
           THEN /\ response' = JsonError(400, Join(validationErrors))
                /\ pc' = "done"
           ELSE /\ pc' = "calling"
                /\ UNCHANGED response
    /\ UNCHANGED <<req, env, page, args, result, inFlight, attempts, delay, llmLog, waits, parsed,
                   outline, idx, imgCalls, imgHits, lastFetch, pauses, deck, err>>

\* Fail leaving the request without a response
FailWithoutResponse(message) ==
    /\ err' = message
    /\ response' = response
    /\ pc' = "done"

\* catch (err) { next(err) } and the error handler's response
Fail(message) ==
    /\ err' = message
    /\ response' = errorHandler(message)
    /\ pc' = "done"

\* the catch of one attempt, for an error of the given status and message
AttemptCatch(status, message, kind) ==
    /\ attempts' = attempts + 1
    /\ llmLog' = Append(llmLog, kind)
    /\ IF ShouldRetry(status, attempts + 1)
       THEN /\ waits' = Append(waits, delay)
            /\ pc' = "backoff"
            /\ UNCHANGED <<err, response>>
       ELSE /\ Fail(ThrownMessage(message))
            /\ UNCHANGED waits
    /\ UNCHANGED <<req, env, page, args, result, inFlight, delay, outline, idx, imgCalls, imgHits, lastFetch, pauses, deck>>

\* model.generateContent rejects
GenerateContentRejects ==
    /\ pc = "calling"
    /\ \E e \in UpstreamErrors :
          AttemptCatch(e.status, e.message, IF e.status = 503 THEN "overload" ELSE "error")
    /\ UNCHANGED parsed

\* the text holds no {...}
ResponseWithoutJson ==
    /\ pc = "calling"
    /\ AttemptCatch(0, NoJsonMessage, "nojson")
    /\ UNCHANGED parsed

\* JSON.parse throws on the matched text
ResponseWithBadJson ==
    /\ pc = "calling"
    /\ AttemptCatch(0, ParseFailedMessage, "badjson")
    /\ UNCHANGED parsed

\* the matched text parses: the outline is repaired and returned, or the
\* repair throws inside the try and is reported as a parse failure
ResponseWithJson ==
    /\ pc = "calling"
    /\ \E p \in ParsedOutlines(OptionSlideCount(req)) :
          LET n == NormalizeOutline(p, OptionSlideCount(req), req.topic.text)
          IN  /\ parsed' = p
              /\ IF n.threw
                 THEN AttemptCatch(0, ParseFailedMessage, "threw")
                 ELSE /\ outline' = n.value
                      /\ llmLog' = Append(llmLog, "ok")
                      /\ idx' = 0
                      /\ pc' = IF n.value.slidesKind = "arr" /\ n.value.slides # <<>>
                               THEN "enrich" ELSE "assemble"
                      /\ UNCHANGED <<req, env, page, args, result, inFlight, attempts, delay, waits, imgCalls, imgHits,
                                     lastFetch, pauses, deck, err, response>>

\* the backoff timer fires: the delay doubles and the while loop goes on
\* while attempts are left
BackoffElapsed ==
    /\ pc = "backoff"
    /\ delay' = NextDelay(delay)
    /\ IF attempts < maxAttempts
       THEN /\ pc' = "calling"
            /\ UNCHANGED <<err, response>>
       ELSE Fail(WrapGenerationError(AfterMaximumRetries))
    /\ UNCHANGED <<req, env, page, args, result, inFlight, attempts, llmLog, waits, parsed, outline, idx, imgCalls,
                   imgHits, lastFetch, pauses, deck>>

\* how one image search can end: an image, no result, or axios rejecting
\* with an error or a timeout
\* An image comes with the Content-Type header of its download and its URL.
Outcome(kind, contentType, imageUrl) ==
    [kind |-> kind, contentType |-> contentType, imageUrl |-> imageUrl]

FetchOutcomes ==
    { Outcome("image", "image/jpeg", "photo"), Outcome("empty", Absent, Absent),
      Outcome("error", Absent, Absent), Outcome("timeout", Absent, Absent) }

\* the Content-Type headers that hold 'image/'
ImageContentTypes == {"image/jpeg", "image/png", "image/webp"}

\* the media type of the download: the Content-Type header if it names an
\* image, else what the URL holds, else JPEG
mimeType(contentType, imageUrl) ==
    IF contentType \in ImageContentTypes THEN contentType
    ELSE IF imageUrl \in {"photo.png", "photo.webp.png"} THEN "image/png"
    ELSE IF imageUrl \in {"photo.webp", "photo.webp.png"} THEN "image/webp"
    ELSE "image/jpeg"

\* `data:${mimeType};base64,${base64Image}`
dataUrl(mime) ==
    CASE mime = "image/png" -> "data:image/png;base64,"
      [] mime = "image/webp" -> "data:image/webp;base64,"
      [] OTHER -> "data:image/jpeg;base64,"

\* what fetchImageFromUnsplash returns for a result: data, url, attribution
FetchedImage(outcome) ==
    [t |-> "obj", data |-> dataUrl(mimeType(outcome.contentType, outcome.imageUrl)),
     idea |-> Absent, from |-> "unsplash", url |-> outcome.imageUrl,
     attribution |-> "photographer"]

\* fetchImageFromUnsplash(query) with the key set: its catch turns every
\* rejection into null, as does an empty result
fetchImageFromUnsplash(outcome) ==
    IF outcome.kind = "image" THEN FetchedImage(outcome) ELSE NoImage

\* enhanceSlideWithImage copying the image's fields into the slide's image
enhanceSlideWithImageMerging(slideData, outcome) ==
    IF slideData.visualHint = Absent THEN slideData
    ELSE LET imageData == fetchImageFromUnsplash(outcome)
         IN  IF imageData.t # Absent
             THEN [slideData EXCEPT !.image = [imageData EXCEPT !.idea = slideData.image.idea]]
             ELSE slideData

\* enhanceSlideWithImage assigning the image without testing it for null
enhanceSlideWithImageUnchecked(slideData, outcome) ==
    IF slideData.visualHint = Absent THEN slideData
    ELSE [slideData EXCEPT !.image = fetchImageFromUnsplash(outcome)]

\* enhanceSlideWithImage(slideData), given how the image search ends
enhanceSlideWithImage(slideData, outcome) ==
    IF slideData.visualHint = Absent THEN slideData
    ELSE LET imageData == fetchImageFromUnsplash(outcome)
         IN  IF imageData.t # Absent
             THEN [slideData EXCEPT !.image = imageData]
             ELSE slideData

\* whether enhanceSlideWithImage reaches the image search at all
CallsImageSearch(slideData) ==
    slideData.visualHint # Absent /\ env.UNSPLASH_ACCESS_KEY

\* PauseDue with no pause at all
PauseDueNever(i, n) == FALSE

\* if (i < outline.slides.length - 1): the pause is due after slide i of n
PauseDue(i, n) == i < n - 1

\* the end of one iteration of the enrichment loop: the pause, or the next
\* iteration, or the end of the loop.  idx stays at the last slide when the
\* loop ends.
AfterEnhance ==
    IF PauseDue(idx, Len(outline.slides))
    THEN pc' = "pause" /\ idx' = idx
    ELSE IF idx + 1 < Len(outline.slides)
    THEN pc' = "enrich" /\ idx' = idx + 1
    ELSE pc' = "assemble" /\ idx' = idx

\* one iteration of the enrichment loop up to the first await that waits
\* for the network: enhanceSlideWithImage starts the image search, or
\* returns the slide as it is without one
EnhanceSlideWithImage ==
    /\ pc = "enrich"
    /\ LET slideData == outline.slides[idx + 1]
       IN  IF CallsImageSearch(slideData)
           THEN /\ inFlight' = inFlight \cup {idx}
                /\ imgCalls' = imgCalls \cup {idx}
                /\ lastFetch' = "pending"
                /\ pc' = "fetching"
                /\ UNCHANGED <<outline, idx>>
           ELSE /\ outline' = [outline EXCEPT !.slides[idx + 1] =
                                  enhanceSlideWithImage(slideData, Outcome("notcalled", Absent, Absent))]
                /\ lastFetch' = "notcalled"
                /\ AfterEnhance
                /\ UNCHANGED <<inFlight, imgCalls>>
    /\ UNCHANGED <<req, env, page, args, result, attempts, delay, llmLog, waits, parsed, imgHits,
                   pauses, deck, err, response>>

\* the image search settles and the iteration runs to its end
ImageSearchSettles ==
    /\ pc = "fetching"
    /\ \E outcome \in FetchOutcomes :
          /\ outcome.kind = "image" => imgHits < MaxImageHits
          /\ outline' = [outline EXCEPT !.slides[idx + 1] =
                            enhanceSlideWithImage(outline.slides[idx + 1], outcome)]
          /\ imgHits' = IF outcome.kind = "image" THEN imgHits + 1 ELSE imgHits
          /\ lastFetch' = outcome.kind
    /\ inFlight' = inFlight \ {idx}
    /\ AfterEnhance
    /\ UNCHANGED <<req, env, page, args, result, attempts, delay, llmLog, waits, parsed, imgCalls,
                   pauses, deck, err, response>>

\* the 500ms pause elapses and the loop goes on (i++)
PauseElapsed ==
    /\ pc = "pause"
    /\ pauses' = Append(pauses, idx)
    /\ lastFetch' = "none"
    /\ IF idx + 1 < Len(outline.slides)
       THEN pc' = "enrich" /\ idx' = idx + 1
       ELSE pc' = "assemble" /\ idx' = idx
    /\ UNCHANGED <<req, env, page, args, result, inFlight, attempts, delay, llmLog, waits, parsed,
                   outline, imgCalls, imgHits, deck, err, response>>

\* theme, title slide and content slides, up to `await pptx.write`
Assemble ==
    /\ pc = "assemble"
    /\ \E faults \in SUBSET Primitives :
          LET built == AssembleDeck(outline, req.topic.text,
                                    SelectedTheme(OptionColorTheme(req)), faults)
          IN  /\ deck' = built.slides
              /\ IF built.threw
                 THEN Fail(RenderTypeError)
                 ELSE /\ pc' = "write"
                      /\ UNCHANGED <<err, response>>
    /\ lastFetch' = "none"
    /\ UNCHANGED <<req, env, page, args, result, inFlight, attempts, delay, llmLog, waits, parsed, outline, idx,
                   imgCalls, imgHits, pauses>>

\* pptx.write resolves: res.set stores the headers, or throws before any
\* header is stored for good, and the buffer is piped
WriteResolves ==
    /\ pc = "write"
    /\ IF ValidHeaderValue(req.topic.chars)
       THEN /\ response' = FileResponse
            /\ pc' = "done"
            /\ UNCHANGED err
       ELSE Fail(InvalidCharacter)
    /\ UNCHANGED <<req, env, page, args, result, inFlight, attempts, delay, llmLog, waits, parsed, outline, idx,
                   imgCalls, imgHits, lastFetch, pauses, deck>>

\* pptx.write rejects
WriteRejects ==
    /\ pc = "write"
    /\ Fail(WriteFailed)
    /\ UNCHANGED <<req, env, page, args, result, inFlight, attempts, delay, llmLog, waits, parsed, outline, idx,
                   imgCalls, imgHits, lastFetch, pauses, deck>>

Next ==
    \/ ValidateRequest
    \/ GenerateContentRejects
    \/ ResponseWithoutJson
    \/ ResponseWithBadJson
    \/ ResponseWithJson
    \/ BackoffElapsed
    \/ EnhanceSlideWithImage
    \/ ImageSearchSettles
    \/ PauseElapsed
    \/ Assemble
    \/ WriteResolves
    \/ WriteRejects

Spec == Init /\ [][Next]_vars

-----------------------------------------------------------------------------
(* The repair of the outline on its own, for every array length up to      *)
(* MaxLlmSlides                                                            *)

InitNormalize ==
    /\ pc = "parsed"
    /\ req \in Requests
    /\ env = [UNSPLASH_ACCESS_KEY |-> TRUE]
    /\ parsed \in NonArrayOutlines \cup ArrayOutlines(0..MaxLlmSlides)
    /\ attempts = 0
    /\ delay = InitialDelay
    /\ llmLog = <<>>
    /\ waits = <<>>
    /\ outline = NoOutline
    /\ idx = 0
    /\ imgCalls = {}
    /\ imgHits = 0
    /\ lastFetch = "none"
    /\ inFlight = {}
    /\ args = <<>>
    /\ result = <<>>
    /\ pauses = <<>>
    /\ deck = <<>>
    /\ err = <<>>
    /\ response = NoResponse
    /\ page = NoPage

\* the slide-count repair is done
CountRepairReturns ==
    /\ pc = "parsed"
    /\ LET counted == CountRepair(parsed, OptionSlideCount(req), req.topic.text)
       IN  /\ ~counted.threw
           /\ outline' = counted.value
    /\ pc' = "counted"
    /\ UNCHANGED <<req, env, page, args, result, inFlight, attempts, delay, llmLog, waits, parsed,
                   idx, imgCalls, imgHits, lastFetch, pauses, deck, err, response>>

\* the slide-count repair throws
CountRepairThrows ==
    /\ pc = "parsed"
    /\ CountRepair(parsed, OptionSlideCount(req), req.topic.text).threw
    /\ pc' = "threw in the slide-count repair"
    /\ UNCHANGED <<req, env, page, args, result, inFlight, attempts, delay, llmLog, waits, parsed,
                   outline, idx, imgCalls, imgHits, lastFetch, pauses, deck, err, response>>

\* the bullet-point repair is done and the outline is returned
BulletRepairReturns ==
    /\ pc = "counted"
    /\ LET fixed == BulletRepair(outline)
       IN  /\ ~fixed.threw
           /\ outline' = fixed.value
    /\ pc' = "returned"
    /\ UNCHANGED <<req, env, page, args, result, inFlight, attempts, delay, llmLog, waits, parsed,
                   idx, imgCalls, imgHits, lastFetch, pauses, deck, err, response>>

\* the bullet-point repair throws
BulletRepairThrows ==
    /\ pc = "counted"
    /\ BulletRepair(outline).threw
    /\ pc' = "threw in the bullet-point repair"
    /\ UNCHANGED <<req, env, page, args, result, inFlight, attempts, delay, llmLog, waits, parsed,
                   outline, idx, imgCalls, imgHits, lastFetch, pauses, deck, err, response>>

NextNormalize ==
    \/ CountRepairReturns
    \/ CountRepairThrows
    \/ BulletRepairReturns
    \/ BulletRepairThrows

SpecNormalize == InitNormalize /\ [][NextNormalize]_vars

-----------------------------------------------------------------------------
(* Functions applied on their own.  No request is being handled: the       *)
(* variables of the request keep the values they have before one, args     *)
(* holds the arguments and result what the function returned.              *)

request == <<req, env, attempts, delay, llmLog, waits, parsed, outline, idx, imgCalls,
             imgHits, lastFetch, inFlight, pauses, deck, err, response>>

NoServerRequest ==
    /\ req = Request(5, Absent)
    /\ env = [UNSPLASH_ACCESS_KEY |-> TRUE]
    /\ attempts = 0
    /\ delay = InitialDelay
    /\ llmLog = <<>>
    /\ waits = <<>>
    /\ parsed = NoOutline
    /\ outline = NoOutline
    /\ idx = 0
    /\ imgCalls = {}
    /\ imgHits = 0
    /\ lastFetch = "none"
    /\ inFlight = {}
    /\ pauses = <<>>
    /\ deck = <<>>
    /\ err = <<>>
    /\ response = NoResponse

\* neither a request at the server nor a page
NoRequest == NoServerRequest /\ page = NoPage

\* the function was applied and returned (or threw) the value
Applied(value) ==
    /\ pc = "apply"
    /\ pc' = "applied"
    /\ result' = value
    /\ UNCHANGED <<args, page, request>>

-----------------------------------------------------------------------------
(* The extraction of the JSON text from the LLM's raw text.  The text is a *)
(* sequence of characters: the braces, "k" for a character of a JSON       *)
(* member and "c" for a character of commentary, which no JSON text holds. *)

\* longest commentary before and after the object
MaxCommentary == 2

\* the sequences over a set of at most n elements
RECURSIVE SeqsUpTo(_, _)
SeqsUpTo(S, n) ==
    IF n = 0 THEN { <<>> }
    ELSE LET shorter == SeqsUpTo(S, n - 1)
         IN  shorter \cup { Append(t, x) : t \in shorter, x \in S }

\* the positions of a character in a text
Positions(text, ch) == { i \in DOMAIN text : text[i] = ch }

SetMin(S) == CHOOSE x \in S : \A y \in S : x <= y
SetMax(S) == CHOOSE x \in S : \A y \in S : x >= y

\* raw.match(/\{[\s\S]*\}/): null, or [first, last] of the leftmost longest
\* match, from the first opening brace to the last closing brace after it
Match(raw) ==
    LET opens == Positions(raw, "{")
        closes == IF opens = {} THEN {}
                  ELSE { j \in Positions(raw, "}") : j > SetMin(opens) }
    IN  IF closes = {} THEN [found |-> FALSE, text |-> <<>>]
        ELSE [found |-> TRUE, text |-> SubSeq(raw, SetMin(opens), SetMax(closes))]

\* the nesting depth after the first n characters of a text
RECURSIVE Depth(_, _)
Depth(text, n) ==
    IF n = 0 THEN 0
    ELSE Depth(text, n - 1) + (CASE text[n] = "{" -> 1 [] text[n] = "}" -> -1 [] OTHER -> 0)

\* whether JSON.parse accepts the text as an object: one pair of braces
\* around members and nested objects, and nothing else
ParsesAsObject(text) ==
    /\ Len(text) >= 2
    /\ \A i \in DOMAIN text : text[i] \in {"{", "}", "k"}
    /\ \A n \in 1..(Len(text) - 1) : Depth(text, n) >= 1
    /\ Depth(text, Len(text)) = 0

\* the outcome of match and JSON.parse for a raw text: no JSON found, the
\* parse throwing, or the object parsed (given by its text)
ExtractJson(raw) ==
    LET jsonMatch == Match(raw)
    IN  IF ~jsonMatch.found THEN [kind |-> "nojson", value |-> <<>>]
        ELSE IF ParsesAsObject(jsonMatch.text) THEN [kind |-> "ok", value |-> jsonMatch.text]
        ELSE [kind |-> "badjson", value |-> <<>>]

\* JSON objects, and no object at all
JsonObjects ==
    { <<"{", "}">>, <<"{", "k", "}">>, <<"{", "k", "{", "k", "}", "}">>,
      <<"{", "{", "}", "k", "}">> }

\* commentary, then one object or none, then commentary
InitExtract ==
    /\ pc = "apply"
    /\ args \in [pre : SeqsUpTo({"c", "k", "{", "}"}, MaxCommentary),
                  obj : JsonObjects \cup { <<>> },
                  post : SeqsUpTo({"c", "k", "{", "}"}, MaxCommentary)]
    /\ result = <<>>
    /\ NoRequest

RawText(a) == a.pre \o a.obj \o a.post

ExtractFindsNoJson ==
    /\ ExtractJson(RawText(args)).kind = "nojson"
    /\ Applied(ExtractJson(RawText(args)))

ExtractParseThrows ==
    /\ ExtractJson(RawText(args)).kind = "badjson"
    /\ Applied(ExtractJson(RawText(args)))

ExtractParses ==
    /\ ExtractJson(RawText(args)).kind = "ok"
    /\ Applied(ExtractJson(RawText(args)))

NextExtract == ExtractFindsNoJson \/ ExtractParseThrows \/ ExtractParses

SpecExtract == InitExtract /\ [][NextExtract]_vars

-----------------------------------------------------------------------------
(* pickLayout on its own *)

\* largest slide index
MaxIndex == 20

\* what a slide's layout field may hold: a known name, nothing, the empty
\* string, or a name that is not known
ProvidedLayouts == LayoutNames \cup {Absent, "", "grid", "Quote"}

InitLayout ==
    /\ pc = "apply"
    /\ args \in [index : 0..MaxIndex, provided : ProvidedLayouts]
    /\ result = <<>>
    /\ NoRequest

\* the call with the arguments, and the seven calls without a layout
\* provided for the indexes from the argument on
PickLayoutReturns ==
    Applied([layout |-> pickLayout(args.index, args.provided),
             cycle |-> [k \in 0..6 |-> pickLayout(args.index + k, Absent)]])

NextLayout == PickLayoutReturns

SpecLayout == InitLayout /\ [][NextLayout]_vars

-----------------------------------------------------------------------------
(* The bullet-point repair of one slide on its own *)

\* longest bulletPoints string
MaxBulletLen == 4

\* the characters of a bulletPoints string: two separators, the blank, a
\* digit, the dot and a letter
BulletCharacters == {"NL", ";", " ", "1", ".", "a"}

\* the strings of a bulletPoints array
BulletStrings == { <<"a">>, <<>>, <<"1", ".", "a">>, <<" ", "a", ";">> }

\* what the bulletPoints field of a slide may hold
BulletValues ==
    { BulletString(str) : str \in SeqsUpTo(BulletCharacters, MaxBulletLen) }
    \cup { BulletArray(arr) : arr \in SeqsUpTo(BulletStrings, 2) }
    \cup { NoBullets, BulletOther }

InitBullets ==
    /\ pc = "apply"
    /\ args \in BulletValues
    /\ result = <<>>
    /\ NoRequest

\* the slide with the bulletPoints of the arguments
SlideWith(bp) == [BaseSlide(1) EXCEPT !.bulletPoints = bp]

\* the repair applied once, and applied again to what it gave
RepairedBullets(bp) ==
    [once |-> FixBulletPoints(SlideWith(bp)).bulletPoints,
     twice |-> FixBulletPoints(FixBulletPoints(SlideWith(bp))).bulletPoints]

\* typeof slide.bulletPoints === 'string'
RepairSplitsString ==
    /\ args.t = "str"
    /\ Applied(RepairedBullets(args))

\* Array.isArray(slide.bulletPoints)
RepairKeepsArray ==
    /\ args.t = "arr"
    /\ Applied(RepairedBullets(args))

\* else: slide.bulletPoints = []
RepairReplacesOther ==
    /\ args.t \notin {"str", "arr"}
    /\ Applied(RepairedBullets(args))

NextBullets == RepairSplitsString \/ RepairKeepsArray \/ RepairReplacesOther

SpecBullets == InitBullets /\ [][NextBullets]_vars

-----------------------------------------------------------------------------
(* The chart renderer on its own *)

\* longest labels and values sequence of a chart
MaxChartLen == 7

\* the labels and the values the charts are cut from
ChartLabels == <<"l1", "l2", "l3", "l4", "l5", "l6", "l7", "l8">>
ChartValues == <<1, 2, 3, 4, 5, 6, 7, 8>>

\* the chart objects of an outline: each field an array or some other value
ChartObjects ==
    { [t |-> "obj", type |-> type,
       labelsArr |-> la, labels |-> IF la THEN Take(ChartLabels, nl) ELSE <<>>,
       valuesArr |-> va, values |-> IF va THEN Take(ChartValues, nv) ELSE <<>>] :
         type \in {"bar", "line", "pie", "donut", Absent},
         la \in BOOLEAN, va \in BOOLEAN,
         nl \in 0..MaxChartLen, nv \in 0..MaxChartLen }

InitChart ==
    /\ pc = "apply"
    /\ args \in [chart : ChartObjects \cup {NoChart}, faults : SUBSET {"addChart"}]
    /\ result = <<>>
    /\ NoRequest

\* the data drawn by s.addChart
UsableChart(chart) ==
    /\ chart.t # Absent
    /\ chart.labelsArr
    /\ chart.valuesArr
    /\ Min(Len(chart.labels), Len(chart.values)) # 0

\* return false before anything is drawn
RenderChartFindsNoData ==
    /\ ~UsableChart(args.chart)
    /\ Applied(renderChart("bottom", args.chart, args.faults))

\* s.addChart(...); return true
RenderChartDraws ==
    /\ UsableChart(args.chart)
    /\ "addChart" \notin args.faults
    /\ Applied(renderChart("bottom", args.chart, args.faults))

\* catch (e) { ...; return false }
RenderChartCatches ==
    /\ UsableChart(args.chart)
    /\ "addChart" \in args.faults
    /\ Applied(renderChart("bottom", args.chart, args.faults))

NextChart == RenderChartFindsNoData \/ RenderChartDraws \/ RenderChartCatches

SpecChart == InitChart /\ [][NextChart]_vars

-----------------------------------------------------------------------------
(* The table renderer on its own *)

\* most headers, rows and cells of a row of a table
MaxTableLen == 7

\* the lengths the rows of a table are given
RowLengths == {0, 3, MaxTableLen}

\* row i of a table: its cells name their row and column
TableRow(i, len) == Row([j \in 1..len |-> <<i, j>>])

\* the table objects of an outline: nh headers and nr rows, the odd rows of
\* one length and the even rows of another; the row at place bad (if any)
\* is a JSON value of kind badKind instead of an array
TableObjects ==
    { [t |-> "obj",
       headersArr |-> ha, headers |-> IF ha THEN [j \in 1..nh |-> <<0, j>>] ELSE <<>>,
       rowsArr |-> ra,
       rows |-> IF ra THEN [i \in 1..nr |->
                               IF i = bad THEN BadRow(badKind)
                               ELSE TableRow(i, IF i % 2 = 1 THEN odd ELSE even)]
                ELSE <<>>] :
         ha \in BOOLEAN, ra \in BOOLEAN,
         nh \in {0, 2, 6, MaxTableLen}, nr \in {0, 1, 6, MaxTableLen},
         odd \in RowLengths, even \in RowLengths,
         bad \in {0, 2, MaxTableLen}, badKind \in {"null", "str"} }

InitTable ==
    /\ pc = "apply"
    /\ args \in [table : TableObjects \cup {NoTable}, faults : SUBSET {"addTable"}]
    /\ result = <<>>
    /\ NoRequest

\* table && Array.isArray(table.headers) && Array.isArray(table.rows)
HasTable(table) == table.t # Absent /\ table.headersArr /\ table.rowsArr

\* every row among the first six has a slice method
RowsSliceable(table) ==
    \A i \in 1..Min(Len(table.rows), 6) : table.rows[i].t \in {"arr", "str"}

\* return false before anything is drawn
RenderTableFindsNoData ==
    /\ ~HasTable(args.table)
    /\ Applied(renderTable("bottom", args.table, args.faults))

\* r.slice is not a function
RenderTableThrows ==
    /\ HasTable(args.table)
    /\ ~RowsSliceable(args.table)
    /\ Applied(renderTable("bottom", args.table, args.faults))

\* s.addTable(...); return true
RenderTableDraws ==
    /\ HasTable(args.table)
    /\ RowsSliceable(args.table)
    /\ "addTable" \notin args.faults
    /\ Applied(renderTable("bottom", args.table, args.faults))

\* catch (e) { ...; return false }
RenderTableCatches ==
    /\ HasTable(args.table)
    /\ RowsSliceable(args.table)
    /\ "addTable" \in args.faults
    /\ Applied(renderTable("bottom", args.table, args.faults))

NextTable ==
    \/ RenderTableFindsNoData
    \/ RenderTableThrows
    \/ RenderTableDraws
    \/ RenderTableCatches

SpecTable == InitTable /\ [][NextTable]_vars

-----------------------------------------------------------------------------
(* The drawing of one content slide on its own *)

\* most bullets of a slide
MaxSlideBullets == 5

\* largest index of a content slide
MaxSlideIndex == 9

\* bullet i of a slide
SlideBullet(i) == Repeat("b", i)

\* what bulletPoints may hold at drawing: nothing, n bullets, empty strings
\* only, or bullets with an empty string between them
SlideBulletValues ==
    { BulletArray([i \in 1..n |-> SlideBullet(i)]) : n \in 0..MaxSlideBullets }
    \cup { NoBullets, BulletArray(<< <<>>, <<>> >>),
           BulletArray(<<SlideBullet(1), <<>>, SlideBullet(2)>>) }

\* an image without data, with data, and with data that is no string
SlideImages == { NoImage, LlmImage(Absent, "idea"), LlmImage("b64", Absent),
                 LlmImage("num", Absent) }

\* a table that can be drawn, and one whose second row is a number
SlideTables == { NoTable, GoodTable,
                 [GoodTable EXCEPT !.rows = <<Row(<<"c1">>), BadRow("num")>>] }

\* a chart that can be drawn, and one without labels
SlideCharts == { NoChart, GoodChart, [GoodChart EXCEPT !.labels = <<>>] }

\* the slides drawn at index 0 in the blue theme, in every layout
SlideContents ==
    { [slide |-> SlideObj(LlmTitle(1), bp, layout, Absent, image, table, chart),
       index |-> 0, theme |-> "blue", faults |-> faults] :
         bp \in SlideBulletValues, layout \in LayoutNames, image \in SlideImages,
         table \in SlideTables, chart \in SlideCharts, faults \in SUBSET Primitives }

\* one slide without a layout of its own, at every index in every theme
SlidePlaces ==
    { [slide |-> BaseSlide(1), index |-> index, theme |-> theme, faults |-> {}] :
         index \in 0..MaxSlideIndex, theme \in ThemeNames }

InitSlide ==
    /\ pc = "apply"
    /\ args \in SlideContents \cup SlidePlaces
    /\ result = <<>>
    /\ NoRequest

\* addContentSlide as the route calls it
DrawnSlide ==
    addContentSlide(args.slide, args.index, SelectedTheme(args.theme), args.faults)

\* addContentSlide returns
AddContentSlideReturns ==
    /\ ~DrawnSlide.threw
    /\ Applied(DrawnSlide)

\* a renderer throws out of addContentSlide; the slide keeps what was drawn
AddContentSlideThrows ==
    /\ DrawnSlide.threw
    /\ Applied(DrawnSlide)

NextSlide == AddContentSlideReturns \/ AddContentSlideThrows

SpecSlide == InitSlide /\ [][NextSlide]_vars

-----------------------------------------------------------------------------
(* lighten on its own *)

\* the fractions lighten is given, in hundredths
Fractions == 0..100

\* the colours of the themes, and black, white and a colour of unequal channels
LightenColors ==
    UNION { { colorThemes[t].background, colorThemes[t].title, colorThemes[t].text,
              colorThemes[t].accent } : t \in ThemeNames }
    \cup { <<0, 0, 0, 0, 0, 0>>, White, <<0, 0, 8, 0, 15, 14>> }

InitLighten ==
    /\ pc = "apply"
    /\ args \in [hex : LightenColors, pct : Fractions]
    /\ result = <<>>
    /\ NoRequest

\* lighten(hex, pct) returns
LightenReturns == Applied(lighten(args.hex, args.pct))

NextLighten == LightenReturns

SpecLighten == InitLighten /\ [][NextLighten]_vars

-----------------------------------------------------------------------------
(* One iteration of the enrichment loop on its own *)

\* the slides of the outline at the iteration: with and without visualHint,
\* with and without an image of the LLM's
EnhanceSlides ==
    { SlideObj(LlmTitle(1), BulletArray(<< <<"a">> >>), Absent, "hint",
               LlmImage(Absent, "idea"), NoTable, NoChart),
      SlideObj(LlmTitle(2), NoBullets, "quote", "hint", NoImage, GoodTable, GoodChart),
      SlideObj(LlmTitle(3), BulletArray(<< <<"a">>, <<"b">> >>), "image-left", "hint",
               LlmImage("b64", "idea"), NoTable, NoChart),
      SlideObj(LlmTitle(4), BulletArray(<< <<"a">> >>), Absent, Absent,
               LlmImage(Absent, "idea"), NoTable, NoChart) }

\* how the image search of the iteration may end
EnhanceOutcomes ==
    { Outcome("image", contentType, imageUrl) :
         contentType \in ImageContentTypes \cup {Absent, "text/html"},
         imageUrl \in {"photo", "photo.png", "photo.webp", "photo.webp.png"} }
    \cup { Outcome(kind, Absent, Absent) : kind \in {"empty", "error", "timeout"} }

InitEnhance ==
    /\ pc = "apply"
    /\ args \in [slides : [1..2 -> EnhanceSlides], i : 1..2, outcome : EnhanceOutcomes]
    /\ result = <<>>
    /\ NoRequest

\* outline.slides[i] = await enhanceSlideWithImage(outline.slides[i])
EnhancedSlides ==
    [args.slides EXCEPT ![args.i] = enhanceSlideWithImage(args.slides[args.i], args.outcome)]

\* the image search found an image
EnhanceAttachesImage ==
    /\ args.slides[args.i].visualHint # Absent
    /\ args.outcome.kind = "image"
    /\ Applied(EnhancedSlides)

\* no visualHint, or the image search found nothing or failed
EnhanceLeavesSlide ==
    /\ args.slides[args.i].visualHint = Absent \/ args.outcome.kind # "image"
    /\ Applied(EnhancedSlides)

NextEnhance == EnhanceAttachesImage \/ EnhanceLeavesSlide

SpecEnhance == InitEnhance /\ [][NextEnhance]_vars

-----------------------------------------------------------------------------
(* The error-handling middleware on its own *)

\* most parts of an error message
MaxMessageLen == 2

\* the parts of an error message: the words the middleware looks for, the
\* same words in another case, and text it does not look for
MessageParts ==
    { "API key", "quota", "parse", "JSON", "validation", "Invalid", "timeout", "TIMEOUT",
      "Rate limit", "Too many requests", "Timeout", "invalid", " failed" }

InitErrorHandler ==
    /\ pc = "apply"
    /\ args \in SeqsUpTo(MessageParts, MaxMessageLen)
    /\ result = <<>>
    /\ NoRequest

\* res.status(statusCode).json({ error: errorMessage, ... })
ErrorHandlerAnswers == Applied(errorHandler(args))

NextErrorHandler == ErrorHandlerAnswers

SpecErrorHandler == InitErrorHandler /\ [][NextErrorHandler]_vars

-----------------------------------------------------------------------------
(* The web form on its own *)

\* most requests a page sends
MaxSent == 3

\* what the user types into the topic field
Topics == { <<>>, <<" ">>, <<"a">>, <<" ", "a", "b", " ">> }

InitPage ==
    /\ pc = "page"
    /\ args = <<>>
    /\ result = <<>>
    /\ NoServerRequest
    /\ page \in { Home(backendUrl) : backendUrl \in BOOLEAN }

\* a step of the page
PageStep(p) ==
    /\ page' = p
    /\ UNCHANGED <<pc, args, result, request>>

\* onChange of the topic field, which is disabled while isLoading
TypeTopic ==
    /\ page.phase # "closed"
    /\ ~page.isLoading
    /\ \E topic \in Topics \ {page.topic} : PageStep([page EXCEPT !.topic = topic])

\* onSubmit through the submit control
Submit ==
    /\ page.phase # "closed"
    /\ ~SubmitDisabled(page)
    /\ page.sent < MaxSent
    /\ PageStep(handleSubmit(page))

\* fetch resolves: clearTimeout, then the body is awaited: response.json()
\* of a response that is not ok or is JSON, response.blob() otherwise
FetchResolves ==
    /\ page.phase = "fetch"
    /\ \E body \in {"error body", "json body", "blob"} :
          PageStep([page EXCEPT !.phase = body, !.timer = FALSE])

\* fetch rejects for a network failure: the timer stays armed
FetchRejects ==
    /\ page.phase = "fetch"
    /\ PageStep([Finished(page, "Error: Cannot connect to server. Please check your internet connection.")
                    EXCEPT !.stale = @ + 1])

\* the 60-second timer fires: controller.abort() rejects the fetch
TimerAborts ==
    /\ page.phase = "fetch"
    /\ page.timer
    /\ PageStep(Finished(page, "Error: Request timed out. Please try again with a simpler topic."))

\* a timer left armed fires: its request has ended
StaleTimerFires ==
    /\ page.stale > 0
    /\ PageStep([page EXCEPT !.stale = @ - 1])

\* the body of an error response was read, or could not be
ErrorBodyRead ==
    /\ page.phase \in {"error body", "json body"}
    /\ \E message \in {"Error: Internal server error", "Error: Server error: 500",
                        "Error: Unknown server error"} :
          PageStep(Finished(page, message))

\* response.blob() settles: the file is downloaded and the topic cleared,
\* or the file is empty, or the body could not be read
BlobRead ==
    /\ page.phase = "blob"
    /\ \/ PageStep([Finished(page, "Presentation downloaded successfully!")
                       EXCEPT !.topic = <<>>])
       \/ PageStep(Finished(page, "Error: Empty file received from server"))
       \/ PageStep(Finished(page, "Error: Cannot connect to server. Please check your internet connection."))

NextPage ==
    \/ TypeTopic
    \/ Submit
    \/ FetchResolves
    \/ FetchRejects
    \/ TimerAborts
    \/ StaleTimerFires
    \/ ErrorBodyRead
    \/ BlobRead

SpecPage == InitPage /\ [][NextPage]_vars

-----------------------------------------------------------------------------
(* Properties *)

Last(s) == s[Len(s)]

\* message is a generation error that wraps the underlying message
Wraps(message, underlying) ==
    /\ Len(message) > Len(underlying)
    /\ message[1] = GenerationPrefix
    /\ SubSeq(message, Len(message) - Len(underlying) + 1, Len(message)) = underlying

\* the LLM answered with JSON text in its last call
AnsweredJson == llmLog # <<>> /\ Last(llmLog) \in {"ok", "threw"}

\* C1: for every requested slide count and every LLM array of 0..MaxLlmSlides
\* entries, the outline the repair returns has exactly the requested number
\* of slides.
C1_ReturnedOutlineHasRequestedCount ==
    (pc = "returned" /\ parsed.slidesKind = "arr")
        => Len(outline.slides) = OptionSlideCount(req)

\* C1 witness: an array of 20 slides was cut down to the 7 requested
C1_Witness ==
    /\ pc = "returned"
    /\ Len(parsed.slides) = 20
    /\ OptionSlideCount(req) = 7
    /\ Len(outline.slides) = 7

\* the content slide of the deck drawn for the outline's i-th slide carries
\* that slide's title, at index i - 1
DrawnFrom(d, slide, i) ==
    /\ d.type = "content"
    /\ d.index = i - 1
    /\ \E k \in DOMAIN d.els : d.els[k].title = slide.slideTitle

\* C2 (as claimed): once the LLM's text has parsed to an outline whose slides
\* are all objects, the assembled deck is the title slide followed by one
\* content slide per outline slide, in outline order: 1 + slideCount slides.
C2_DeckIsTitlePlusEverySlide ==
    ( /\ pc \in {"write", "done"}
      /\ llmLog # <<>> /\ Last(llmLog) = "ok"
      /\ \A i \in DOMAIN parsed.slides : parsed.slides[i].kind = "obj" )
        => /\ Len(deck) = 1 + OptionSlideCount(req)
           /\ deck[1].type = "title"
           /\ \A i \in 1..OptionSlideCount(req) : DrawnFrom(deck[i + 1], outline.slides[i], i)

\* C3: an answer without JSON, or with JSON that does not parse, ends the
\* request at once: it is the last LLM call, the error is a generation
\* error, no slide is added to a document, and the response is 502 with
\* the fixed message.
C3_UnparsableAnswerIs502 ==
    \A i \in DOMAIN llmLog :
        llmLog[i] \in {"nojson", "badjson"}
            => /\ i = Len(llmLog)
               /\ pc = "done"
               /\ err[1] = GenerationPrefix
               /\ deck = <<>>
               /\ response = JsonError(502, FailedToProcess)

\* C3 witness: the second call, made after an overload, answered without JSON
C3_Witness == pc = "done" /\ llmLog = <<"overload", "nojson">>

\* the messages an LLM call of the given kind can have failed with
UnderlyingMessages(kind) ==
    CASE kind = "nojson" -> {NoJsonMessage}
      [] kind \in {"badjson", "threw"} -> {ParseFailedMessage}
      [] kind = "overload" -> {e.message : e \in {u \in UpstreamErrors : u.status = 503}}
      [] kind = "error" -> {e.message : e \in {u \in UpstreamErrors : u.status # 503}}
      [] OTHER -> {}

\* C4: the LLM is called at most 3 times; every call but the last ended in
\* an overload (503); a backoff wait is taken only after such a call;
\* and a failure of any other kind is the last call, ends the request and
\* is passed on as a generation error wrapping the underlying message.
C4_RetryOnlyOnOverload ==
    /\ Len(llmLog) <= 3
    /\ \A i \in 1..(Len(llmLog) - 1) : llmLog[i] = "overload"
    /\ Len(waits) = IF pc \in {"backoff", "calling"} \/ llmLog = <<>>
                    THEN Len(llmLog) ELSE Len(llmLog) - 1
    /\ (llmLog # <<>> /\ Last(llmLog) \in {"error", "nojson", "badjson"})
          => /\ pc = "done"
             /\ \E m \in UnderlyingMessages(Last(llmLog)) : Wraps(err, m)

\* C4 witness: two overloads, then a failure that is no overload
C4_Witness == pc = "done" /\ llmLog = <<"overload", "overload", "error">>

\* every LLM call of the request ended in an overload and the request failed
OverloadedOut ==
    /\ pc = "done"
    /\ llmLog # <<>>
    /\ \A i \in DOMAIN llmLog : llmLog[i] = "overload"

\* C5 (as claimed): a request that fails under repeated overload has waited
\* 1s, 2s and 4s, one wait before each of 3 retries.
C5_ThreeRetriesThreeWaits ==
    OverloadedOut => (waits = <<1000, 2000, 4000>> /\ Len(llmLog) = 4)

\* C5 (amended): generation is attempted at most 3 times, that is retried at
\* most twice, with waits of 1s and then 2s; the third overload fails the
\* request without a further wait, so that no wait of 4s is ever taken.
C5_TwoRetriesTwoWaits ==
    /\ waits \in {<<>>, <<1000>>, <<1000, 2000>>}
    /\ OverloadedOut => (waits = <<1000, 2000>> /\ Len(llmLog) = 3 /\ response.kind = "json")

\* C5 witness: the third overload has failed the request
C5_Witness == OverloadedOut /\ Len(llmLog) = 3

\* C6 (as claimed): when the parsed outline has no slides array, the request
\* still succeeds with a document that shows the error slide.
C6_MissingSlidesGivesErrorSlide ==
    (pc = "done" /\ AnsweredJson /\ parsed.slidesKind # "arr")
        => /\ response = FileResponse
           /\ \E i \in DOMAIN deck : deck[i] = ErrorSlide

\* C7 (as claimed): an entry of the slides array that is no object does not
\* fail the request, and in the assembled deck exactly the object entries
\* are drawn, in order, each at its own index.
C7_BadEntryIsSkipped ==
    ( /\ AnsweredJson
      /\ parsed.slidesKind = "arr"
      /\ \E i \in DOMAIN parsed.slides : parsed.slides[i].kind # "obj" )
        => /\ Last(llmLog) = "ok"
           /\ pc = "write" =>
                 /\ \A i \in DOMAIN outline.slides :
                       outline.slides[i].kind = "obj"
                           <=> \E k \in 2..Len(deck) : DrawnFrom(deck[k], outline.slides[i], i)
                 /\ \A k \in 2..(Len(deck) - 1) : deck[k].index < deck[k + 1].index

\* C8 (as claimed): rendering never raises because of an image, table or
\* chart field: once the outline is returned the request ends with the
\* document, or with the failure of the document's serialisation.
C8_RenderingNeverRaises ==
    (pc = "done" /\ llmLog # <<>> /\ Last(llmLog) = "ok")
        => (response = FileResponse \/ err = WriteFailed)

\* C9 (as claimed): whatever the LLM collaborator's error says, the error
\* response carries one of the fixed messages.
C9_UpstreamTextNeverEchoed ==
    (pc = "done" /\ llmLog # <<>> /\ Last(llmLog) \in {"error", "overload"})
        => response.error \in FixedMessages

\* C10: an enrichment step never ends the request; when the image search
\* errors, times out or finds nothing the outline is left as it was; and
\* for a slide without visualHint the image search is not called.
C10_EnrichmentNeverFails ==
    [][ /\ pc = "enrich" =>
            /\ pc' \in {"fetching", "pause", "assemble"}
            /\ response' = NoResponse
            /\ outline.slides[idx + 1].visualHint = Absent =>
                  (imgCalls' = imgCalls /\ lastFetch' = "notcalled" /\ outline' = outline)
        /\ pc = "fetching" =>
            /\ pc' \in {"pause", "assemble"}
            /\ response' = NoResponse
            /\ lastFetch' \in {"error", "timeout", "empty"} => outline' = outline
      ]_vars

\* C10 witness: the image search of a slide that came with an image of the
\* LLM's has failed, and the slide still has that image
C10_Witness ==
    /\ pc \in {"pause", "assemble"}
    /\ lastFetch \in {"error", "timeout"}
    /\ outline.slides[idx + 1].visualHint # Absent
    /\ outline.slides[idx + 1].image.from = "llm"

\* the pauses taken after slides 0 .. n - 1, in order
PausesUpTo(n) == [k \in 1..n |-> k - 1]

\* the enrichment loop has ended for an outline that has slides
Enriched ==
    /\ pc \in {"assemble", "write", "done"}
    /\ llmLog # <<>> /\ Last(llmLog) = "ok"
    /\ outline.slidesKind = "arr" /\ outline.slides # <<>>

\* C11 (as claimed): the image searches run one at a time in slide order,
\* and every enrichment call, the last one included, is followed by the
\* 500ms pause.
C11_PauseAfterEveryCall ==
    /\ Cardinality(inFlight) <= 1
    /\ Enriched => pauses = PausesUpTo(Len(outline.slides))

\* C11 (amended): at most one image search is in flight, and it is the one
\* of the slide the loop is at; every search already started belongs to
\* that slide or an earlier one; the call for slide i + 1 starts only after
\* the call for slide i has settled and the 500ms pause after it has
\* elapsed; the last call is followed by no pause.
C11_SequentialWithPauseBetween ==
    /\ Cardinality(inFlight) <= 1
    /\ inFlight = IF pc = "fetching" THEN {idx} ELSE {}
    /\ \A j \in imgCalls : j <= idx
    /\ pc \in {"enrich", "fetching", "pause"} => pauses = PausesUpTo(idx)
    /\ Enriched => pauses = PausesUpTo(Len(outline.slides) - 1)

\* C11 witness: the image search of the third slide is in flight after the
\* searches of the first two were made
C11_Witness ==
    /\ pc = "fetching"
    /\ idx = 2
    /\ imgCalls = {0, 1, 2}
    /\ pauses = <<0, 1>>

\* the elements drawn in the given region of the deck slide of the given index
DrawnIn(d, index, region) ==
    LET at == { k \in DOMAIN d : d[k].type = "content" /\ d[k].index = index }
        els == UNION { { d[k].els[e] : e \in DOMAIN d[k].els } : k \in at }
    IN  { x \in els : x.region = region }

\* C12 (as claimed): when the image search of the last slide has failed and
\* the slide is laid out image-left, the deck that is assembled does not
\* leave the slide's image region empty: a placeholder block is drawn there
\* (or the image the outline came with).
C12_FailedSearchDrawsPlaceholder ==
    [][ ( /\ pc = "assemble" /\ pc' = "write"
          /\ lastFetch \in {"error", "timeout"}
          /\ pickLayout(idx, outline.slides[idx + 1].layout) = "image-left" )
        => \E x \in DrawnIn(deck', idx, "image") : x.el \in {"shape", "image"}
      ]_vars

\* every value the body supplies lies in its domain
InDomain(r) ==
    /\ r.topic.t = "str"
    /\ Len(Trim(r.topic.chars)) >= 3
    /\ Len(r.topic.chars) <= 200
    /\ r.slideCount.t # Absent => (r.slideCount.t = "num" /\ r.slideCount.n \in SlideCounts)
    /\ r.presentationStyle # Absent => r.presentationStyle \in validStyles
    /\ r.audienceLevel # Absent => r.audienceLevel \in validLevels
    /\ r.colorTheme # Absent => r.colorTheme \in ThemeNames

\* C13 (as claimed): a request that supplies a value outside its domain is
\* answered 400 with the validation messages, and for it no LLM call, no
\* image search and no document assembly happens.
C13_OutOfDomainIsRejected ==
    (pc # "received" /\ ~InDomain(req))
        => /\ response.kind = "json" /\ response.status = 400
           /\ response.error # <<>>
           /\ llmLog = <<>> /\ imgCalls = {} /\ deck = <<>>

\* C14 (as claimed): for commentary, then one JSON object, then commentary
\* that may hold braces, the outline parsed is that object.
C14_FirstObjectIsParsed ==
    (pc = "applied" /\ args.obj # <<>> /\ Positions(args.pre, "{") = {})
        => result = [kind |-> "ok", value |-> args.obj]

\* C15: pickLayout returns the layout provided when it is one of the seven
\* names, and otherwise the layout at index mod 7 of the list; the seven
\* calls for the indexes i .. i + 6 without a layout provided return seven
\* different layouts.
C15_PickLayout ==
    pc = "applied" =>
        /\ args.provided \in {"title-bullets", "two-column", "quote", "section-divider",
                               "checklist", "numbers", "image-left"}
              => result.layout = args.provided
        /\ args.provided \in {Absent, "", "grid", "Quote"}
              => result.layout = layouts[(args.index % 7) + 1]
        /\ Cardinality({ result.cycle[k] : k \in 0..6 }) = 7

\* C15 witness: a layout provided is taken at an index whose own layout is
\* another one
C15_Witness ==
    /\ pc = "applied"
    /\ args = [index |-> 9, provided |-> "quote"]
    /\ result.layout = "quote"

\* C16: the deck is drawn with the palette of the colour theme requested
\* when it is one of the seven, and with the blue palette when none is
\* requested: the title slide has the palette's background colour (166534
\* for green) and the stripe of every content slide its accent colour.  A
\* name that is not one of the seven is rejected before any deck (C13).
C16_ThemeOfDeck ==
    deck # <<>> =>
        LET name == req.colorTheme
            palette == IF name \in {"blue", "green", "purple", "red", "orange", "teal", "gray"}
                       THEN colorThemes[name] ELSE colorThemes["blue"]
        IN  /\ deck[1].type = "title"
            /\ deck[1].background = palette.background
            /\ name = "green" => deck[1].background = <<1, 6, 6, 5, 3, 4>>
            /\ name \in {Absent, ""} => deck[1].background = <<1, 14, 3, 10, 8, 10>>
            /\ \A k \in 2..Len(deck) :
                  deck[k].type = "content" => deck[k].els[1].fill = palette.accent

\* C16 witness: a deck requested in green is ready to be written
C16_Witness ==
    /\ pc = "write"
    /\ req.colorTheme = "green"
    /\ deck[1].background = <<1, 6, 6, 5, 3, 4>>
    /\ Len(deck) = 4

\* C17: the slide-count repair of an array never throws; of more slides
\* than requested it keeps the first N in their order; of fewer it keeps
\* every slide as it is, in its place, and appends fillers, the one at
\* place n titled 'Additional Content n' and carrying two or three bullet
\* points, one of which names the topic.
C17_CountRepairKeepsContent ==
    parsed.slidesKind = "arr" =>
        /\ pc # "threw in the slide-count repair"
        /\ pc = "counted" =>
              LET given == parsed.slides
                  fixed == outline.slides
                  n == OptionSlideCount(req)
              IN  /\ Len(given) >= n => fixed = SubSeq(given, 1, n)
                  /\ Len(given) < n =>
                        /\ Len(fixed) = n
                        /\ SubSeq(fixed, 1, Len(given)) = given
                        /\ \A k \in (Len(given) + 1)..n :
                              /\ fixed[k].kind = "obj"
                              /\ fixed[k].slideTitle = [src |-> "Additional Content", n |-> k]
                              /\ fixed[k].bulletPoints.t = "arr"
                              /\ Len(fixed[k].bulletPoints.arr) \in {2, 3}
                              /\ \E b \in DOMAIN fixed[k].bulletPoints.arr :
                                    Includes(fixed[k].bulletPoints.arr[b], req.topic.text)

\* C17 witness: two slides were given for five requested, and three
\* fillers follow them
C17_Witness ==
    /\ pc = "counted"
    /\ Len(parsed.slides) = 2
    /\ OptionSlideCount(req) = 5
    /\ outline.slides[5].slideTitle = [src |-> "Additional Content", n |-> 5]

\* the maximal runs of a string that hold no separator, as <<first, last>>
Runs(str) ==
    { r \in (DOMAIN str) \X (DOMAIN str) :
          /\ r[1] <= r[2]
          /\ \A k \in r[1]..r[2] : str[k] \notin {"NL", "BUL", "CHK", "SQRT", "/", ";"}
          /\ r[1] = 1 \/ str[r[1] - 1] \in {"NL", "BUL", "CHK", "SQRT", "/", ";"}
          /\ r[2] = Len(str) \/ str[r[2] + 1] \in {"NL", "BUL", "CHK", "SQRT", "/", ";"} }

\* the fragment a run gives: the run without the blanks around it and
\* without a leading number, its dot and the blanks after the dot
Fragment(str, r) ==
    LET inked == { k \in r[1]..r[2] : str[k] # " " }
        first == SetMin(inked)
        last == SetMax(inked)
        afterDigits == SetMin({ k \in first..(last + 1) : k > last \/ str[k] \notin {"1", "2"} })
        numbered == afterDigits > first /\ afterDigits <= last /\ str[afterDigits] = "."
        rest == { k \in inked : k > afterDigits }
    IN  IF inked = {} THEN <<>>
        ELSE IF ~numbered THEN SubSeq(str, first, last)
        ELSE IF rest = {} THEN <<>>
        ELSE SubSeq(str, SetMin(rest), last)

\* the fragments of the runs, in the order of the runs, without the empty ones
RECURSIVE FragmentsFrom(_, _)
FragmentsFrom(str, from) ==
    LET later == { r \in Runs(str) : r[1] >= from }
    IN  IF later = {} THEN <<>>
        ELSE LET r == CHOOSE x \in later : \A y \in later : x[1] <= y[1]
                 f == Fragment(str, r)
             IN  (IF f = <<>> THEN <<>> ELSE <<f>>) \o FragmentsFrom(str, r[2] + 1)

\* C18: the repair leaves a sequence in bulletPoints.  Of a string it is the
\* fragments between the separators, in their order, each without the
\* blanks around it and without a leading enumeration prefix, none empty;
\* of a value that is neither string nor sequence it is the empty sequence.
C18_BulletPointsBecomeSequence ==
    pc = "applied" =>
        /\ result.once.t = "arr"
        /\ args.t = "str" =>
              /\ result.once.arr = FragmentsFrom(args.str, 1)
              /\ \A i \in DOMAIN result.once.arr :
                    LET f == result.once.arr[i]
                    IN  /\ f # <<>>
                        /\ f[1] # " " /\ f[Len(f)] # " "
                        /\ \A k \in DOMAIN f : f[k] \notin {"NL", ";"}
        /\ args.t \notin {"str", "arr"} => result.once.arr = <<>>

\* C18 witness: a numbered fragment and an empty one
C18_Witness ==
    /\ pc = "applied"
    /\ args = BulletString(<<"1", ".", "a", ";">>)
    /\ result.once.arr = << <<"a">> >>

\* C19: the repair leaves a sequence of strings as it is, and applied to
\* its own result it changes nothing.
C19_BulletRepairIdempotent ==
    pc = "applied" =>
        /\ args.t = "arr" => result.once = args
        /\ result.twice = result.once

\* C19 witness: a sequence with an empty string and a numbered one is kept
C19_Witness ==
    /\ pc = "applied"
    /\ args = BulletArray(<< <<>>, <<"1", ".", "a">> >>)
    /\ result.twice = args

\* C20: a chart is drawn with min(labels.length, values.length) elements,
\* capped at 6: the first of the labels and of the values; with no usable
\* element, or with labels or values that are no sequence, nothing is drawn
\* and the renderer returns false.
C20_ChartElementsCappedAtSix ==
    pc = "applied" =>
        LET chart == args.chart
            n == Min(Min(Len(chart.labels), Len(chart.values)), 6)
        IN  IF chart.t = Absent \/ ~chart.labelsArr \/ ~chart.valuesArr \/ n = 0
            THEN result = Returned(FALSE, <<>>)
            ELSE \/ "addChart" \in args.faults
                 \/ /\ result.ok
                    /\ Len(result.els) = 1
                    /\ result.els[1].el = "chart"
                    /\ result.els[1].labels = Take(chart.labels, n)
                    /\ result.els[1].values = Take(chart.values, n)

\* a is the leading part of b, in b's order
IsPrefix(a, b) == Len(a) <= Len(b) /\ a = SubSeq(b, 1, Len(a))

\* C21: a table handed to the drawing primitive has at most 6 header cells,
\* at most 6 data rows and no data row longer than its header row; the
\* headers, the rows and the cells of each row are the leading ones of the
\* outline's table, in their order.
C21_TableIsTruncated ==
    (pc = "applied" /\ ~result.threw /\ result.ok) =>
        /\ Len(result.els) = 1
        /\ result.els[1].el = "table"
        /\ LET drawn == result.els[1].rows
               headers == drawn[1].cells
               rows == Drop(drawn, 1)
           IN  /\ Len(headers) <= 6
               /\ IsPrefix(headers, args.table.headers)
               /\ Len(rows) <= 6
               /\ Len(rows) <= Len(args.table.rows)
               /\ \A i \in DOMAIN rows :
                      /\ rows[i].t = args.table.rows[i].t
                      /\ Len(rows[i].cells) <= Len(headers)
                      /\ IsPrefix(rows[i].cells, args.table.rows[i].cells)

\* a table of seven headers and seven rows of seven cells was drawn
C21_Witness ==
    /\ pc = "applied"
    /\ result.ok
    /\ Len(args.table.headers) = MaxTableLen
    /\ Len(args.table.rows) = MaxTableLen
    /\ \A i \in DOMAIN args.table.rows : Len(args.table.rows[i].cells) = MaxTableLen
    /\ Len(result.els[1].rows) = 7

\* the elements of a drawn slide that lie in a region
InRegion(els, region) == SelectSeq(els, LAMBDA e : e.region = region)

\* a renderer's call added its element to the slide and returned true
Renders(r) == ~r.threw /\ r.ok

\* C22 (as claimed): in the two-column layout the non-empty bullets are split
\* at ceil(n/2); the left part is always drawn; the right column holds the
\* table if it renders, otherwise the chart if it renders, otherwise the
\* right part of the bullets as text, and nothing else.
C22_TwoColumnRightColumn ==
    (pc = "applied" /\ result.slide.layout = "two-column") =>
        LET bullets == Bullets(args.slide)
            mid == (Len(bullets) + 1) \div 2
            els == result.slide.els
            table == renderTable("right", args.slide.table, args.faults)
            chart == renderChart("right", args.slide.chart, args.faults)
        IN  /\ InRegion(els, "left") = <<TextEl("left", BulletLines(Take(bullets, mid)))>>
            /\ InRegion(els, "right") =
                  IF Renders(table) THEN table.els
                  ELSE IF Renders(chart) THEN chart.els
                  ELSE <<TextEl("right", BulletLines(Drop(bullets, mid)))>>

\* what the first renderer of a chain that renders adds to the slide
RECURSIVE FirstSuccessful(_)
FirstSuccessful(chain) ==
    IF chain = <<>> THEN <<>>
    ELSE IF Renders(chain[1]) THEN chain[1].els
    ELSE FirstSuccessful(Drop(chain, 1))

\* C23 (as claimed): the bottom band of the quote layout holds what the
\* first of table, chart and image that renders has drawn, the bottom band of
\* the checklist, numbers and title-bullets layouts what the first of chart
\* and table that renders has drawn, and nothing of a later one.
C23_FirstSuccessWins ==
    (pc = "applied" /\ result.slide.layout \in {"quote", "checklist", "numbers", "title-bullets"}) =>
        LET table == renderTable("bottom", args.slide.table, args.faults)
            chart == renderChart("bottom", args.slide.chart, args.faults)
            image == renderImage("bottom", args.slide.image, SelectedTheme(args.theme),
                                 args.faults)
            chain == IF result.slide.layout = "quote" THEN <<table, chart, image>>
                     ELSE <<chart, table>>
        IN  InRegion(result.slide.els, "bottom") = FirstSuccessful(chain)

\* C24: without a non-empty bullet the checklist layout shows the two items
\* 'First task' and 'Second task' behind a checkmark and the numbers layout
\* two filler items numbered 1 and 2; with bullets, the checklist shows every
\* bullet behind a checkmark and the numbers layout bullet k behind 'k. ',
\* in the bullets' order.
C24_ChecklistAndNumbersItems ==
    (pc = "applied" /\ result.slide.layout \in {"checklist", "numbers"}) =>
        LET bullets == Bullets(args.slide)
            body == InRegion(result.slide.els, "body")
            lines == body[1].lines
            checklist == result.slide.layout = "checklist"
        IN  /\ Len(body) = 1
            /\ body[1].el = "text"
            /\ Len(lines) = IF bullets = <<>> THEN 2 ELSE Len(bullets)
            /\ \A k \in DOMAIN lines :
                  /\ lines[k].prefix = IF checklist THEN "CHK " ELSE ". "
                  /\ lines[k].n = IF checklist THEN 0 ELSE k
                  /\ bullets # <<>> => lines[k].text = bullets[k]
            /\ (checklist /\ bullets = <<>>) =>
                  (lines[1].text = <<"First task">> /\ lines[2].text = <<"Second task">>)
            /\ (~checklist /\ bullets = <<>>) =>
                  (\A k \in DOMAIN lines : lines[k].text \notin
                        {args.slide.bulletPoints.arr[i] : i \in DOMAIN args.slide.bulletPoints.arr})

\* a numbers slide whose bullets are all empty was drawn with its fillers,
\* as was one of five bullets
C24_Witness ==
    /\ pc = "applied"
    /\ result.slide.layout = "numbers"
    /\ \/ /\ args.slide.bulletPoints = BulletArray(<< <<>>, <<>> >>)
          /\ Len(InRegion(result.slide.els, "body")[1].lines) = 2
       \/ /\ Len(Bullets(args.slide)) = MaxSlideBullets
          /\ InRegion(result.slide.els, "body")[1].lines[MaxSlideBullets].n = MaxSlideBullets

\* C25: for a colour of six hex digits lighten(c, 0) is c, lighten(c, 1) is
\* FFFFFF, and for every fraction from 0 to 1 the result is six hex digits
\* whose channels lie in 0..255 and are not below the channels of c.
C25_LightenTowardWhite ==
    pc = "applied" =>
        LET c == hexToRgb(args.hex)
            out == hexToRgb(result)
        IN  /\ args.pct = 0 => result = args.hex
            /\ args.pct = 100 => result = <<15, 15, 15, 15, 15, 15>>
            /\ Len(result) = 6
            /\ \A i \in 1..6 : result[i] \in 0..15
            /\ out.r \in c.r..255
            /\ out.g \in c.g..255
            /\ out.b \in c.b..255

\* the green theme's background was lightened by 0.95 and changed
C25_Witness ==
    /\ pc = "applied"
    /\ args = [hex |-> colorThemes["green"].background, pct |-> 95]
    /\ result # args.hex
    /\ result # <<15, 15, 15, 15, 15, 15>>

\* the background of the content slide that follows the drawn one
NextBackground ==
    addContentSlide(args.slide, args.index + 1, SelectedTheme(args.theme), {}).slide.background

\* C26: the background of a content slide is the entry of a fixed list of
\* tints at the slide's index modulo the length of the list; in each of the
\* seven themes the slide of the next index gets another background; and
\* every content slide has the accent-coloured stripe, drawn first.
C26_BackgroundRotation ==
    pc = "applied" =>
        LET theme == colorThemes[args.theme]
            tints == <<White, lighten(theme.accent, 85), lighten(theme.accent, 92),
                       lighten(theme.background, 95), lighten(theme.accent, 80)>>
        IN  /\ result.slide.background = tints[(args.index % Len(tints)) + 1]
            /\ result.slide.background # NextBackground
            /\ result.slide.els[1] = ShapeEl("stripe", theme.accent)
            /\ Len(InRegion(result.slide.els, "stripe")) = 1

\* the slide of index 4 of the gray theme, followed by a white slide
C26_Witness ==
    /\ pc = "applied"
    /\ args.theme = "gray"
    /\ args.index = 4
    /\ NextBackground = White
    /\ result.slide.background = lighten(colorThemes["gray"].accent, 80)

\* C27: after a successful image search the slide's image is the record of
\* data, url and attribution, data being a data URL that names its media
\* type, and holds nothing of the image the LLM supplied; the other fields
\* of the slide and the other slides of the outline are as they were.
C27_OnlyImageIsReplaced ==
    (/\ pc = "applied"
     /\ args.slides[args.i].visualHint # Absent
     /\ args.outcome.kind = "image") =>
        LET before == args.slides[args.i]
            after == result[args.i]
        IN  /\ \A j \in DOMAIN args.slides : j # args.i => result[j] = args.slides[j]
            /\ DOMAIN result = DOMAIN args.slides
            /\ after = [before EXCEPT !.image = after.image]
            /\ after.image.t = "obj"
            /\ after.image.data \in { "data:image/jpeg;base64,", "data:image/png;base64,",
                                      "data:image/webp;base64," }
            /\ after.image.url = args.outcome.imageUrl
            /\ after.image.attribution = "photographer"
            /\ after.image.idea = Absent

\* an image was found for a slide whose image came with an idea of the LLM's
C27_Witness ==
    /\ pc = "applied"
    /\ args.slides[args.i].visualHint # Absent
    /\ args.slides[args.i].image.idea = "idea"
    /\ args.outcome = Outcome("image", Absent, "photo.png")
    /\ result[args.i].image.data = "data:image/png;base64,"
    /\ result[args.i].image.idea = Absent

\* C28: a request is answered once, with the file or with one JSON error
\* object: nothing is sent before the request ends, what was sent is never
\* replaced or followed by a second answer, and at the end the answer is the
\* file of a request that did not fail or the error of one that did.
C28_AnsweredExactlyOnce ==
    /\ [](pc # "done" => response = NoResponse)
    /\ [](pc = "done" =>
            \/ response = FileResponse /\ err = <<>>
            \/ /\ response.kind = "json"
               /\ response.status \in {400, 408, 429, 500, 502, 503}
               /\ response.error # <<>>
               /\ err = <<>> => response.status = 400)
    /\ [][response # NoResponse => response' = response]_vars

\* a request failed at the headers of the file and was answered with an
\* error
C28_Witness ==
    /\ pc = "done"
    /\ req.topic = WideTopic
    /\ err = InvalidCharacter
    /\ response.kind = "json"
    /\ deck # <<>>

\* the words of the middleware's branches and their statuses, in order
StatusRules ==
    << [words |-> {"API key", "quota"}, status |-> 503],
       [words |-> {"parse", "JSON"}, status |-> 502],
       [words |-> {"validation", "Invalid"}, status |-> 400],
       [words |-> {"timeout", "TIMEOUT"}, status |-> 408],
       [words |-> {"Rate limit", "Too many requests"}, status |-> 429] >>

\* the rules with a word that the message holds
Matching(message) ==
    { k \in DOMAIN StatusRules :
         \E i \in DOMAIN message : message[i] \in StatusRules[k].words }

\* C29: the error handler answers with the status of the first of the rules
\* 'API key' or 'quota' 503, 'parse' or 'JSON' 502, 'validation' or 'Invalid'
\* 400, 'timeout' or 'TIMEOUT' 408, 'Rate limit' or 'Too many requests' 429
\* of which the message holds a word, and with 500 when it holds none.
C29_StatusByFirstMatch ==
    pc = "applied" =>
        /\ result.kind = "json"
        /\ result.status \in {400, 408, 429, 500, 502, 503}
        /\ result.status =
              IF Matching(args) = {} THEN 500
              ELSE StatusRules[CHOOSE k \in Matching(args) :
                                  \A l \in Matching(args) : k <= l].status

\* a message with 'Invalid' before 'JSON' was answered 502
C29_Witness ==
    /\ pc = "applied"
    /\ args = <<"Invalid", "JSON">>
    /\ result.status = 502

\* C30: handleSubmit sends no request for a topic that is empty or blank;
\* isLoading is true exactly while the handler that sent a request has not
\* finished, whatever ends it; while isLoading is true the submit control is
\* disabled; and at most one request of the page is in flight.
C30_OneRequestWhileLoading ==
    pc = "page" =>
        /\ \A topic \in Topics :
              Blank(topic) =>
                 LET after == handleSubmit([page EXCEPT !.topic = topic])
                 IN  after.sent = page.sent /\ after.inFlight = page.inFlight
        /\ page.isLoading <=> page.phase # "idle"
        /\ page.isLoading <=> page.inFlight = 1
        /\ page.isLoading => SubmitDisabled(page)
        /\ page.inFlight <= 1
        /\ page.inFlight = 0 => ~page.timer

\* the page's third request was aborted by the timer after an earlier one
\* had been rejected, and isLoading is false again
C30_Witness ==
    /\ pc = "page"
    /\ page.sent = 3
    /\ page.stale > 0
    /\ page.message = "Error: Request timed out. Please try again with a simpler topic."
    /\ ~page.isLoading
    /\ page.inFlight = 0

====
